---- MODULE Spec2Model ----
(***************************************************************************)
(* A model of the filesystem endpoint URI codec of                        *)
(* lib/charms/filesystem_client/v0/filesystem_info.py: _UriData, the       *)
(* host parser, NfsInfo, CephfsInfo, the scheme dispatcher and the secret  *)
(* store calls of the CephFS variant, FilesystemProvides and                *)
(* FilesystemRequires; of the nfs-share interface of                       *)
(* lib/charms/storage_libs/v0/nfs_interfaces.py; and of the proxy charm of *)
(* src/charm.py with the status pool of src/utils/status.py.               *)
(*                                                                         *)
(* Strings are TLA+ strings, handled as sequences of characters with Len,  *)
(* SubSeq and \o.  The alphabet is printable ASCII without the backtick.   *)
(***************************************************************************)
EXTENDS Integers, Sequences, FiniteSets, TLC

VARIABLES
    wire,     \* the endpoint URI being exchanged: the string a decoder is given
    sent,     \* where wire comes from: <<"raw", "">> for a URI written by a peer,
              \* <<"UriData", x>>, <<"NfsInfo", x>> or <<"CephfsInfo", x>> for the
              \* value whose encoding it is; <<"host", h>> when a host token h is
              \* given to the host parser and no URI is exchanged
    op,       \* the operation that ran last ("init" before any has run)
    ret,      \* its outcome: the value returned or the exception raised
    secrets,  \* the secret store of the model: a sequence of secrets
    calls,    \* the secret store calls made by the operation that ran last
    threads,  \* the to_uri calls that run at the same time against secrets, each
              \* [self, pc, secret, ret]: the descriptor, the statement it is at,
              \* the index of the secret it holds (0 for none) and its outcome;
              \* <<>> when operations run one at a time
    endpoint,       \* NFSServerProxyCharm._stored.endpoint: <<>> for None, <<e>> for e
    config,         \* the endpoint option of the charm's config, likewise
    unit_status,    \* the status of the unit: [name, message]
    _pool,          \* StatusPool._pool in insertion order: [label, name, message] each
    _status_state,  \* StatusPool._status_state, the statuses saved by the last commit
    deferred,       \* the relations whose share_requested event is deferred
    data,           \* an app databag on each relation, a dict: that of this
                    \* application, or of the remote one where relation-changed
                    \* is followed
    is_leader,      \* unit.is_leader()
    snapshot,       \* what the framework has committed to its storage:
                    \* [endpoint, statuses]
    cache,          \* relation.data[unit].get("cache") of each unit of this
                    \* application on each relation: <<>> for None, <<text>>
    emitted         \* how many times the units of this application emitted the
                    \* custom event of the nfs-share interface on each relation

\* the state of the proxy charm and of its relations
charm ==
    <<endpoint, config, unit_status, _pool, _status_state, deferred, data, is_leader,
      snapshot, cache, emitted>>

vars == <<wire, sent, op, ret, secrets, calls, threads, charm>>

\* what an operation of the codec that runs alone leaves as it is
others == <<threads, charm>>

\* no charm is there
NoCharm ==
    /\ endpoint = <<>>
    /\ config = <<>>
    /\ unit_status = [name |-> "unknown", message |-> ""]
    /\ _pool = <<>>
    /\ _status_state = <<>>
    /\ deferred = {}
    /\ data = <<>>
    /\ is_leader = FALSE
    /\ snapshot = [endpoint |-> <<>>, statuses |-> <<>>]
    /\ cache = <<>>
    /\ emitted = <<>>

\* operations run one at a time, and no charm is there
Idle == threads = <<>> /\ NoCharm

---------------------------------------------------------------------------
(* Python str primitives *)

At(s, i) == SubSeq(s, i, i)

From(s, i) == SubSeq(s, i, Len(s))

Prefix(s, n) == SubSeq(s, 1, IF n < Len(s) THEN n ELSE Len(s))

MinOf(S) == CHOOSE x \in S : \A y \in S : x <= y

MaxOf(S) == CHOOSE x \in S : \A y \in S : x >= y

\* str.find(sub, start), 1-based; 0 when sub does not occur
Find(s, sub, start) ==
    LET hits == {i \in start..(Len(s) - Len(sub) + 1) : SubSeq(s, i, i + Len(sub) - 1) = sub}
    IN  IF hits = {} THEN 0 ELSE MinOf(hits)

\* str.rfind(sub), 1-based; 0 when sub does not occur
RFind(s, sub) ==
    LET hits == {i \in 1..(Len(s) - Len(sub) + 1) : SubSeq(s, i, i + Len(sub) - 1) = sub}
    IN  IF hits = {} THEN 0 ELSE MaxOf(hits)

Has(s, sub) == Find(s, sub, 1) # 0

\* str.partition(sep)
Partition(s, sep) ==
    LET i == Find(s, sep, 1)
    IN  IF i = 0 THEN <<s, "", "">>
        ELSE <<SubSeq(s, 1, i - 1), sep, From(s, i + Len(sep))>>

\* str.rpartition(sep)
RPartition(s, sep) ==
    LET i == RFind(s, sep)
    IN  IF i = 0 THEN <<"", "", s>>
        ELSE <<SubSeq(s, 1, i - 1), sep, From(s, i + Len(sep))>>

\* str.split(sep)
RECURSIVE Split(_, _)
Split(s, sep) ==
    LET i == Find(s, sep, 1)
    IN  IF i = 0 THEN <<s>>
        ELSE <<SubSeq(s, 1, i - 1)>> \o Split(From(s, i + Len(sep)), sep)

\* sep.join(parts)
RECURSIVE Join(_, _)
Join(parts, sep) ==
    IF parts = <<>> THEN ""
    ELSE IF Len(parts) = 1 THEN parts[1]
    ELSE parts[1] \o sep \o Join(Tail(parts), sep)

Lowers == "abcdefghijklmnopqrstuvwxyz"

Uppers == "ABCDEFGHIJKLMNOPQRSTUVWXYZ"

Digits == "0123456789"

HexUpper == "0123456789ABCDEF"

HexLower == "0123456789abcdef"

\* code points 32..95 and 97..126, in order
AsciiLow == " !\"#$%&'()*+,-./0123456789:;<=>?@ABCDEFGHIJKLMNOPQRSTUVWXYZ[\\]^_"

AsciiHigh == "abcdefghijklmnopqrstuvwxyz{|}~"

\* ord(c)
Ord(c) ==
    LET i == Find(AsciiLow, c, 1)
        j == Find(AsciiHigh, c, 1)
    IN  IF i # 0 THEN 31 + i ELSE 96 + CHOOSE k \in 1..Len(AsciiHigh) : k = j

\* chr(n); only the alphabet of the model is defined
Chr(n) ==
    IF n - 31 \in 1..Len(AsciiLow) THEN At(AsciiLow, n - 31)
    ELSE At(AsciiHigh, CHOOSE k \in 1..Len(AsciiHigh) : k = n - 96)

LowerChar(c) ==
    LET i == Find(Uppers, c, 1) IN IF i = 0 THEN c ELSE At(Lowers, i)

\* str.lower()
RECURSIVE Lower(_)
Lower(s) == IF s = "" THEN "" ELSE LowerChar(At(s, 1)) \o Lower(From(s, 2))

\* every character of s is one of chars
AllIn(s, chars) == \A i \in 1..Len(s) : Has(chars, At(s, i))

\* str.replace(a, b) for a single character a
RECURSIVE Replace(_, _, _)
Replace(s, a, b) ==
    IF s = "" THEN ""
    ELSE (IF At(s, 1) = a THEN b ELSE At(s, 1)) \o Replace(From(s, 2), a, b)

\* str.lstrip(" ")
RECURSIVE LStrip(_)
LStrip(s) == IF s # "" /\ At(s, 1) = " " THEN LStrip(From(s, 2)) ELSE s

\* str.strip(" ")
RECURSIVE RStrip(_)
RStrip(s) == IF s # "" /\ At(s, Len(s)) = " " THEN RStrip(SubSeq(s, 1, Len(s) - 1)) ELSE s

---------------------------------------------------------------------------
(* Outcomes of a call: the value returned, or the exception raised *)

Ok(v) == [err |-> "", msg |-> "", val |-> v]

Raise(e, m) == [err |-> e, msg |-> m, val |-> ""]

Returned(r) == r.err = ""

---------------------------------------------------------------------------
(* urllib.parse and ipaddress, as the codec uses them (CPython 3.11) *)

IsHex(c) == Has(HexLower, LowerChar(c))

HexVal(c) == Find(HexLower, LowerChar(c), 1) - 1

\* urllib.parse.unquote: %xx escapes become the character; a % that is not
\* followed by two hexadecimal digits stays as it is
RECURSIVE Unquote(_)
Unquote(s) ==
    IF s = "" THEN ""
    ELSE IF At(s, 1) = "%" /\ Len(s) >= 3 /\ IsHex(At(s, 2)) /\ IsHex(At(s, 3))
         THEN Chr(16 * HexVal(At(s, 2)) + HexVal(At(s, 3))) \o Unquote(From(s, 4))
         ELSE At(s, 1) \o Unquote(From(s, 2))

\* urllib.parse._ALWAYS_SAFE
AlwaysSafe == Uppers \o Lowers \o Digits \o "_.-~"

QuoteChar(c, safe) ==
    IF Has(AlwaysSafe, c) \/ Has(safe, c) THEN c
    ELSE "%" \o At(HexUpper, (Ord(c) \div 16) + 1) \o At(HexUpper, (Ord(c) % 16) + 1)

\* urllib.parse.quote(s, safe)
RECURSIVE Quote(_, _)
Quote(s, safe) ==
    IF s = "" THEN "" ELSE QuoteChar(At(s, 1), safe) \o Quote(From(s, 2), safe)

\* urllib.parse.quote_plus(s)
QuotePlus(s) ==
    IF Has(s, " ") THEN Replace(Quote(s, " "), " ", "+") ELSE Quote(s, "")

\* urllib.parse.urlencode of a dict, given as the sequence of its items
UrlEncode(d) ==
    Join([i \in 1..Len(d) |-> QuotePlus(d[i][1]) \o "=" \o QuotePlus(d[i][2])], "&")

\* a dict as the sequence of its <<key, value>> items in insertion order
DictHas(d, k) == \E i \in 1..Len(d) : d[i][1] = k

\* dict.get(k), with None given as ""
DictGet(d, k) ==
    IF DictHas(d, k) THEN d[CHOOSE i \in 1..Len(d) : d[i][1] = k][2] ELSE ""

\* dict equality does not look at the order of the items
DictEq(a, b) == {a[i] : i \in 1..Len(a)} = {b[i] : i \in 1..Len(b)}

\* parse_qs followed by the ",".join(values) of from_uri: a repeated key
\* keeps its first position and collects the values in order
RECURSIVE JoinValues(_, _)
JoinValues(pairs, acc) ==
    IF pairs = <<>> THEN acc
    ELSE LET k == pairs[1][1]
             v == pairs[1][2]
         IN  JoinValues(Tail(pairs),
                 IF DictHas(acc, k)
                 THEN [i \in 1..Len(acc) |->
                          IF acc[i][1] = k THEN <<k, acc[i][2] \o "," \o v>> ELSE acc[i]]
                 ELSE Append(acc, <<k, v>>))

\* the decoded <<key, value>> of each field of a query string
FieldPairs(fields) ==
    [i \in 1..Len(fields) |->
        <<Unquote(Replace(Partition(fields[i], "=")[1], "+", " ")),
          Unquote(Replace(Partition(fields[i], "=")[3], "+", " "))>>]

\* urllib.parse.parse_qsl(fields, strict_parsing=True): a field without "=" is
\* a ValueError, a field with a blank value is dropped
ParseFields(fields) ==
    IF \E i \in 1..Len(fields) : ~Has(fields[i], "=")
    THEN Raise("ValueError", "bad query field")
    ELSE Ok(JoinValues(FieldPairs(SelectSeq(fields, LAMBDA f : Partition(f, "=")[3] # "")),
                       <<>>))

\* parse_qs(qs, strict_parsing=True) with the values of each key joined
ParseQs(qs) == ParseFields(Split(qs, "&"))

IsHextet(p) == Len(p) \in 1..4 /\ AllIn(p, HexLower \o "ABCDEF")

\* ipaddress.IPv6Address(a) succeeds; literals with a scope id or an embedded
\* dotted quad are not in the alphabet of the model and count as invalid
IsIPv6Address(a) ==
    LET parts == Split(a, ":")
        n == Len(parts)
        skips == {i \in 2..(n - 1) : parts[i] = ""}
    IN  /\ ~Has(a, "%")
        /\ ~Has(a, ".")
        /\ n >= 3
        /\ n <= 9
        /\ Cardinality(skips) <= 1
        /\ IF skips # {}
           THEN LET k == CHOOSE i \in skips : TRUE
                    hi == IF parts[1] = "" THEN k - 2 ELSE k - 1
                    lo == IF parts[n] = "" THEN n - k - 1 ELSE n - k
                IN  /\ parts[1] = "" => hi = 0
                    /\ parts[n] = "" => lo = 0
                    /\ hi + lo <= 7
                    /\ \A i \in 1..n :
                          (i <= hi \/ i > n - lo) => IsHextet(parts[i])
           ELSE n = 8 /\ \A i \in 1..n : IsHextet(parts[i])

\* urllib.parse._check_bracketed_host does not raise
CheckBracketedHost(h) ==
    IF Prefix(h, 1) = "v"
    THEN LET dot == Find(h, ".", 1)
         IN  dot >= 3 /\ dot < Len(h) /\ AllIn(SubSeq(h, 2, dot - 1), HexLower \o "ABCDEF")
    ELSE IsIPv6Address(h)

\* urllib.parse.scheme_chars
SchemeChars == Lowers \o Uppers \o Digits \o "+-."

\* urllib.parse.uses_params
UsesParams == {"", "ftp", "hdl", "prospero", "http", "imap", "https", "shttp",
               "rtsp", "rtsps", "rtspu", "sip", "sips", "mms", "sftp", "tel"}

\* urllib.parse.uses_netloc
UsesNetloc == {"", "ftp", "http", "gopher", "nntp", "telnet", "imap", "wais", "file",
               "mms", "https", "shttp", "snews", "prospero", "rtsp", "rtsps", "rtspu",
               "rsync", "svn", "svn+ssh", "sftp", "nfs", "git", "git+ssh", "ws", "wss"}

\* urllib.parse._splitparams
SplitParams(url) ==
    LET i == IF Has(url, "/") THEN Find(url, ";", RFind(url, "/")) ELSE Find(url, ";", 1)
    IN  IF i = 0 THEN url ELSE SubSeq(url, 1, i - 1)

\* urlsplit's scheme detection: <<scheme, rest of the url>>
SplitScheme(url) ==
    IF /\ Find(url, ":", 1) > 1
       /\ Has(Lowers \o Uppers, At(url, 1))
       /\ AllIn(SubSeq(url, 1, Find(url, ":", 1) - 1), SchemeChars)
    THEN <<Lower(SubSeq(url, 1, Find(url, ":", 1) - 1)), From(url, Find(url, ":", 1) + 1)>>
    ELSE <<"", url>>

\* the index where the netloc of "//netloc..." ends, plus one
NetlocEnd(url) ==
    IF {Find(url, c, 3) : c \in {"/", "?", "#"}} = {0} THEN Len(url) + 1
    ELSE MinOf({Find(url, c, 3) : c \in {"/", "?", "#"}} \ {0})

\* urlsplit's netloc detection: <<netloc, rest of the url>>
SplitNetloc(url) ==
    IF Prefix(url, 2) = "//"
    THEN <<SubSeq(url, 3, NetlocEnd(url) - 1), From(url, NetlocEnd(url))>>
    ELSE <<"", url>>

\* the path of urlparse: the params of a uses_params scheme are cut off
PathOf(scheme, url) ==
    IF scheme \in UsesParams /\ Has(url, ";") THEN SplitParams(url) ELSE url

\* the rest of urlsplit and urlparse, given the scheme and <<netloc, url>>
ParseResult(scheme, nl) ==
    IF Has(nl[1], "[") # Has(nl[1], "]")
    THEN Raise("ValueError", "Invalid IPv6 URL")
    ELSE IF Has(nl[1], "[")
            /\ ~CheckBracketedHost(Partition(Partition(nl[1], "[")[3], "]")[1])
    THEN Raise("ValueError", "invalid bracketed host")
    ELSE Ok([scheme |-> scheme, netloc |-> nl[1],
             path |-> PathOf(scheme, Partition(nl[2], "?")[1]),
             query |-> Partition(nl[2], "?")[3]])

\* urlsplit after the scheme detection gave ss
SplitRest(ss) == ParseResult(ss[1], SplitNetloc(ss[2]))

\* urllib.parse.urlparse(url, allow_fragments=False): the scheme, the netloc,
\* the path and the query, or the ValueError of a bad bracketed host
UrlParse(url) == SplitRest(SplitScheme(LStrip(url)))

\* ParseResult.username, with None given as ""
Username(netloc) ==
    LET p == RPartition(netloc, "@")
    IN  IF p[2] = "" THEN "" ELSE Partition(p[1], ":")[1]

\* the host of a hostinfo: what is inside "[...]", or what is before the first ":"
HostOf(hostinfo) ==
    IF Has(hostinfo, "[") THEN Partition(Partition(hostinfo, "[")[3], "]")[1]
    ELSE Partition(hostinfo, ":")[1]

\* the lowercasing of a host, which stops at its first "%"
LowerHost(host) ==
    Lower(Partition(host, "%")[1]) \o Partition(host, "%")[2] \o Partition(host, "%")[3]

\* ParseResult.hostname, with None given as ""
Hostname(netloc) == LowerHost(HostOf(RPartition(netloc, "@")[3]))

\* urllib.parse.urlunsplit((scheme, netloc, url, query, None))
UrlUnsplit(scheme, netloc, url, query) ==
    LET u1 == IF netloc # "" \/ (scheme # "" /\ scheme \in UsesNetloc /\ Prefix(url, 2) # "//")
              THEN "//" \o netloc \o (IF url # "" /\ Prefix(url, 1) # "/" THEN "/" \o url ELSE url)
              ELSE url
        u2 == IF scheme # "" THEN scheme \o ":" \o u1 ELSE u1
    IN  IF query # "" THEN u2 \o "?" \o query ELSE u2

---------------------------------------------------------------------------
(* _UriData *)

\* _UriData.__init__
UriData_init(scheme, hosts, user, path, options) ==
    IF scheme = "" THEN Raise("FilesystemInfoError", "scheme cannot be empty")
    ELSE IF hosts = <<>> THEN Raise("FilesystemInfoError", "list of hosts cannot be empty")
    ELSE Ok([scheme |-> scheme, hosts |-> hosts, user |-> user,
             path |-> IF path = "" THEN "/" ELSE path, options |-> options])

\* an exception of class from is raised again as one of class to
ReRaise(r, from, to) == IF r.err = from THEN Raise(to, r.msg) ELSE r

\* _UriData.from_uri after the unquoting: options is the outcome of parse_qs
UriData_from_parts(scheme, user, hostname, path, options) ==
    IF hostname = "" \/ At(hostname, 1) # "(" \/ At(hostname, Len(hostname)) # ")"
    THEN Raise("ParseUriError", "invalid list of hosts")
    ELSE IF ~Returned(options) THEN Raise("ParseUriError", "invalid options")
    ELSE ReRaise(UriData_init(scheme, Split(SubSeq(hostname, 2, Len(hostname) - 1), ","),
                              user, path, options.val),
                 "FilesystemInfoError", "ParseUriError")

\* _UriData.from_uri after urlparse: a ValueError of urlparse is not caught
UriData_from_result(p) ==
    IF ~Returned(p) THEN p
    ELSE UriData_from_parts(p.val.scheme,
                            Unquote(Username(p.val.netloc)),
                            Unquote(Hostname(p.val.netloc)),
                            Unquote(p.val.path),
                            IF p.val.query # "" THEN ParseQs(p.val.query) ELSE Ok(<<>>))

\* _UriData.from_uri
UriData_from_uri(uri) == UriData_from_result(UrlParse(uri))

\* str(x), had it left the parentheses out around a single host
UriData_str_bare(x) ==
    UrlUnsplit(x.scheme,
               (IF x.user # "" THEN Quote(x.user, "/") \o "@" ELSE "")
                   \o (IF Len(x.hosts) = 1 THEN Quote(x.hosts[1], "/")
                       ELSE "(" \o Quote(Join(x.hosts, ","), "/") \o ")"),
               Quote(x.path, "/"), UrlEncode(x.options))

\* _UriData.__str__
UriData_str(x) ==
    LET user == Quote(x.user, "/")
        hostname == Quote(Join(x.hosts, ","), "/")
        path == Quote(x.path, "/")
        netloc == IF user # "" THEN user \o "@(" \o hostname \o ")" ELSE "(" \o hostname \o ")"
        query == UrlEncode(x.options)
    IN  UrlUnsplit(x.scheme, netloc, path, query)

\* dataclass equality of two _UriData
UriData_eq(x, y) ==
    /\ x.scheme = y.scheme
    /\ x.hosts = y.hosts
    /\ x.user = y.user
    /\ x.path = y.path
    /\ DictEq(x.options, y.options)

---------------------------------------------------------------------------
(* int() and str() of Python integers *)

RECURSIVE DigitsValue(_, _)
DigitsValue(s, acc) ==
    IF s = "" THEN acc
    ELSE IF At(s, 1) = "_" THEN DigitsValue(From(s, 2), acc)
    ELSE DigitsValue(From(s, 2), 10 * acc + (Find(Digits, At(s, 1), 1) - 1))

\* the digits of an int literal: not empty, underscores only between digits
ValidDigits(body) ==
    /\ body # ""
    /\ AllIn(body, Digits \o "_")
    /\ At(body, 1) # "_"
    /\ At(body, Len(body)) # "_"
    /\ ~Has(body, "__")

\* int(t) of a literal without surrounding blanks
ParseSigned(t) ==
    IF Prefix(t, 1) = "-"
    THEN IF ValidDigits(From(t, 2)) THEN <<0 - DigitsValue(From(t, 2), 0)>> ELSE <<>>
    ELSE IF Prefix(t, 1) = "+"
    THEN IF ValidDigits(From(t, 2)) THEN <<DigitsValue(From(t, 2), 0)>> ELSE <<>>
    ELSE IF ValidDigits(t) THEN <<DigitsValue(t, 0)>> ELSE <<>>

\* int(s): <<n>>, or <<>> for a ValueError.  Python takes surrounding blanks,
\* one sign and single underscores between digits
ParseInt(s) == ParseSigned(RStrip(LStrip(s)))

\* str(n) of an integer
RECURSIVE IntStr(_)
IntStr(n) ==
    IF n < 0 THEN "-" \o IntStr(0 - n)
    ELSE IF n < 10 THEN At(Digits, n + 1)
    ELSE IntStr(n \div 10) \o At(Digits, (n % 10) + 1)

---------------------------------------------------------------------------
(* Host parser and the NFS variant.  An optional port is <<>> or <<p>>. *)

\* _hostinfo from the index pos of the first character after the hostname
HostPort(host, hostname, pos) ==
    IF pos = Len(host) + 1 THEN Ok(<<hostname, <<>>>>)
    ELSE IF At(host, pos) # ":" THEN Raise("ParseUriError", "expected : after IPv6 address")
    ELSE IF ParseInt(From(host, pos + 1)) = <<>>
    THEN Raise("ParseUriError", "expected int after : in host")
    ELSE Ok(<<hostname, ParseInt(From(host, pos + 1))>>)

\* _hostinfo, had it lowercased the hostname
_hostinfo_lowercased(host) ==
    IF Len(host) = 0 THEN Raise("ParseUriError", "invalid empty host")
    ELSE IF At(host, 1) = "["
    THEN IF Find(host, "]", 1) = 0 THEN Raise("ParseUriError", "unclosed bracket for host")
         ELSE HostPort(host, Lower(SubSeq(host, 2, Find(host, "]", 1) - 1)),
                       Find(host, "]", 1) + 1)
    ELSE IF Find(host, ":", 1) = 0 THEN HostPort(host, Lower(host), Len(host) + 1)
    ELSE HostPort(host, Lower(SubSeq(host, 1, Find(host, ":", 1) - 1)), Find(host, ":", 1))

\* _hostinfo
_hostinfo(host) ==
    IF Len(host) = 0 THEN Raise("ParseUriError", "invalid empty host")
    ELSE IF At(host, 1) = "["
    THEN IF Find(host, "]", 1) = 0 THEN Raise("ParseUriError", "unclosed bracket for host")
         ELSE HostPort(host, SubSeq(host, 2, Find(host, "]", 1) - 1), Find(host, "]", 1) + 1)
    ELSE IF Find(host, ":", 1) = 0 THEN HostPort(host, host, Len(host) + 1)
    ELSE HostPort(host, SubSeq(host, 1, Find(host, ":", 1) - 1), Find(host, ":", 1))

\* NfsInfo.filesystem_type
NfsInfo_filesystem_type == "nfs"

\* the NfsInfo of NfsInfo.from_uri, given the outcome h of _hostinfo
NfsInfo_of(h, path) ==
    IF ~Returned(h) THEN h
    ELSE Ok([hostname |-> h.val[1], port |-> h.val[2], path |-> path])

\* NfsInfo_from_data, had it refused a URI with several hosts
NfsInfo_from_data_one_host(info) ==
    IF ~Returned(info) THEN info
    ELSE IF info.val.scheme # NfsInfo_filesystem_type
    THEN Raise("ParseUriError", "incompatible scheme")
    ELSE IF Len(info.val.hosts) > 1 THEN Raise("ParseUriError", "multiple hosts")
    ELSE NfsInfo_of(_hostinfo(info.val.hosts[1]), info.val.path)

\* NfsInfo.from_uri after _UriData.from_uri gave info
NfsInfo_from_data(info) ==
    IF ~Returned(info) THEN info
    ELSE IF info.val.scheme # NfsInfo_filesystem_type
    THEN Raise("ParseUriError", "incompatible scheme")
    ELSE NfsInfo_of(_hostinfo(info.val.hosts[1]), info.val.path)

\* NfsInfo.from_uri; the model argument is not used
NfsInfo_from_uri(uri) == NfsInfo_from_data(UriData_from_uri(uri))

\* the host of NfsInfo.to_uri: an IPv6 address is put in brackets
NfsInfo_host(self) ==
    IF IsIPv6Address(self.hostname) THEN "[" \o self.hostname \o "]" ELSE self.hostname

\* str(x) of the outcome x of the constructor
StrOf(x) == IF ~Returned(x) THEN x ELSE Ok(UriData_str(x.val))

\* NfsInfo.to_uri; the model argument is not used
NfsInfo_to_uri(self) ==
    StrOf(UriData_init(NfsInfo_filesystem_type,
                       IF self.port # <<>> /\ self.port # <<0>>
                       THEN <<NfsInfo_host(self) \o ":" \o IntStr(self.port[1])>>
                       ELSE <<NfsInfo_host(self)>>,
                       "", self.path, <<>>))

---------------------------------------------------------------------------
(* The secret store of the Juju model, as ops.Model exposes it.  A secret   *)
(* is [id, label, key, revision, grants]: key is content["key"], revision  *)
(* the latest revision, grants the relations it was granted to.            *)

\* the id the store gives its n-th secret; ops ids read "secret:<id>"
SecretId(n) == "secret:" \o IntStr(n)

\* Model.get_secret(label=label): the index of the secret, 0 for SecretNotFoundError
GetSecretByLabel(store, label) ==
    LET hits == {i \in 1..Len(store) : store[i].label = label}
    IN  IF hits = {} THEN 0 ELSE MinOf(hits)

\* Model.get_secret(id=id): the index of the secret, 0 for SecretNotFoundError
GetSecretById(store, id) ==
    LET hits == {i \in 1..Len(store) : store[i].id = id}
    IN  IF hits = {} THEN 0 ELSE MinOf(hits)

\* FilesystemInfo.grant, had it granted the relation the secret labelled auth
FilesystemInfo_grant_secret(self, store, relation) ==
    IF GetSecretByLabel(store, "auth") = 0
    THEN [ret |-> Ok(""), secrets |-> store, calls |-> <<"get_secret">>]
    ELSE [ret |-> Ok(""),
          secrets |-> [store EXCEPT ![GetSecretByLabel(store, "auth")].grants =
                                        @ \cup {relation}],
          calls |-> <<"get_secret", "grant">>]

\* FilesystemInfo.grant, which NfsInfo inherits: a body that is a docstring.
\* It yields [ret, secrets, calls] as the operations of the CephFS variant do.
FilesystemInfo_grant(self, store, relation) ==
    [ret |-> Ok(""), secrets |-> store, calls |-> <<>>]

---------------------------------------------------------------------------
(* The CephFS variant.  An operation that calls the store yields           *)
(* [ret, secrets, calls]: its outcome, the store after it and its calls.   *)

\* CephfsInfo.filesystem_type, had it been the scheme of the ceph URIs
CephfsInfo_filesystem_type_ceph == "ceph"

\* CephfsInfo.filesystem_type
CephfsInfo_filesystem_type == "cephfs"

\* an operation that ends without calling the store
NoCalls(r, store) == [ret |-> r, secrets |-> store, calls |-> <<>>]

\* CephfsInfo_key, had it looked the secret up by its label
CephfsInfo_key_by_label(auth, store) ==
    IF ~Has(auth, ":")
    THEN NoCalls(Raise("ParseUriError", "could not get the kind of auth info"), store)
    ELSE IF Partition(auth, ":")[1] = "secret"
    THEN IF GetSecretByLabel(store, "auth") = 0
         THEN [ret |-> Raise("SecretNotFoundError", auth), secrets |-> store,
               calls |-> <<"get_secret">>]
         ELSE [ret |-> Ok(store[GetSecretByLabel(store, "auth")].key), secrets |-> store,
               calls |-> <<"get_secret", "get_content">>]
    ELSE IF Partition(auth, ":")[1] = "plain"
    THEN NoCalls(Ok(Partition(auth, ":")[3]), store)
    ELSE NoCalls(Raise("ParseUriError", "invalid kind"), store)

\* CephfsInfo_key, had it taken every kind but secret as plain
CephfsInfo_key_any_kind(auth, store) ==
    IF ~Has(auth, ":")
    THEN NoCalls(Raise("ParseUriError", "could not get the kind of auth info"), store)
    ELSE IF Partition(auth, ":")[1] = "secret"
    THEN IF GetSecretById(store, auth) = 0
         THEN [ret |-> Raise("SecretNotFoundError", auth), secrets |-> store,
               calls |-> <<"get_secret">>]
         ELSE [ret |-> Ok(store[GetSecretById(store, auth)].key), secrets |-> store,
               calls |-> <<"get_secret", "get_content">>]
    ELSE NoCalls(Ok(Partition(auth, ":")[3]), store)

\* the key of CephfsInfo.from_uri, given auth: [ret, secrets, calls] with the
\* key in ret
CephfsInfo_key(auth, store) ==
    IF ~Has(auth, ":")
    THEN NoCalls(Raise("ParseUriError", "could not get the kind of auth info"), store)
    ELSE IF Partition(auth, ":")[1] = "secret"
    THEN IF GetSecretById(store, auth) = 0
         THEN [ret |-> Raise("SecretNotFoundError", auth), secrets |-> store,
               calls |-> <<"get_secret">>]
         ELSE [ret |-> Ok(store[GetSecretById(store, auth)].key), secrets |-> store,
               calls |-> <<"get_secret", "get_content">>]
    ELSE IF Partition(auth, ":")[1] = "plain"
    THEN NoCalls(Ok(Partition(auth, ":")[3]), store)
    ELSE NoCalls(Raise("ParseUriError", "invalid kind"), store)

\* the CephfsInfo of CephfsInfo.from_uri, given the outcome k of getting its key
CephfsInfo_of(x, k) ==
    IF ~Returned(k.ret) THEN k
    ELSE [k EXCEPT !.ret = Ok([fsid |-> DictGet(x.options, "fsid"),
                               name |-> DictGet(x.options, "name"),
                               path |-> x.path, monitor_hosts |-> x.hosts,
                               user |-> x.user, key |-> k.ret.val])]

\* CephfsInfo_from_data, had it not looked at fsid
CephfsInfo_from_data_no_fsid(info, store) ==
    IF ~Returned(info) THEN NoCalls(info, store)
    ELSE IF info.val.scheme # CephfsInfo_filesystem_type
    THEN NoCalls(Raise("ParseUriError", "incompatible scheme"), store)
    ELSE IF info.val.user = "" THEN NoCalls(Raise("ParseUriError", "missing user"), store)
    ELSE IF DictGet(info.val.options, "name") = ""
    THEN NoCalls(Raise("ParseUriError", "missing name"), store)
    ELSE IF DictGet(info.val.options, "auth") = ""
    THEN NoCalls(Raise("ParseUriError", "missing auth"), store)
    ELSE CephfsInfo_of(info.val, CephfsInfo_key(DictGet(info.val.options, "auth"), store))

\* CephfsInfo.from_uri after _UriData.from_uri gave info
CephfsInfo_from_data(info, store) ==
    IF ~Returned(info) THEN NoCalls(info, store)
    ELSE IF info.val.scheme # CephfsInfo_filesystem_type
    THEN NoCalls(Raise("ParseUriError", "incompatible scheme"), store)
    ELSE IF info.val.user = "" THEN NoCalls(Raise("ParseUriError", "missing user"), store)
    ELSE IF DictGet(info.val.options, "name") = ""
    THEN NoCalls(Raise("ParseUriError", "missing name"), store)
    ELSE IF DictGet(info.val.options, "fsid") = ""
    THEN NoCalls(Raise("ParseUriError", "missing fsid"), store)
    ELSE IF DictGet(info.val.options, "auth") = ""
    THEN NoCalls(Raise("ParseUriError", "missing auth"), store)
    ELSE CephfsInfo_of(info.val, CephfsInfo_key(DictGet(info.val.options, "auth"), store))

\* CephfsInfo.from_uri
CephfsInfo_from_uri(uri, store) == CephfsInfo_from_data(UriData_from_uri(uri), store)

\* _get_or_create_auth_secret, had it added a secret without looking for one
_get_or_create_auth_secret_always_add(self, store) ==
    [secrets |-> Append(store, [id |-> SecretId(Len(store) + 1), label |-> "auth",
                                key |-> self.key, revision |-> 1, grants |-> {}]),
     secret |-> Len(store) + 1,
     calls |-> <<"add_secret">>]

\* CephfsInfo._get_or_create_auth_secret: [secrets, secret, calls], secret the
\* index of the secret it returns
_get_or_create_auth_secret(self, store) ==
    LET i == GetSecretByLabel(store, "auth")
    IN  IF i # 0
        THEN [secrets |-> [store EXCEPT ![i].key = self.key, ![i].revision = @ + 1],
              secret |-> i,
              calls |-> <<"get_secret", "set_content">>]
        ELSE [secrets |-> Append(store, [id |-> SecretId(Len(store) + 1), label |-> "auth",
                                         key |-> self.key, revision |-> 1, grants |-> {}]),
              secret |-> Len(store) + 1,
              calls |-> <<"get_secret", "add_secret">>]

\* the options dict that CephfsInfo.to_uri builds from the secret it got
CephfsInfo_options(self, secret) ==
    << <<"fsid", self.fsid>>, <<"name", self.name>>, <<"auth", secret.id>>,
       <<"auth-rev", IntStr(secret.revision)>> >>

\* CephfsInfo.to_uri after _get_or_create_auth_secret gave g
CephfsInfo_to_uri_with(self, g) ==
    [ret |-> StrOf(UriData_init(CephfsInfo_filesystem_type, self.monitor_hosts, self.user,
                                self.path, CephfsInfo_options(self, g.secrets[g.secret]))),
     secrets |-> g.secrets,
     calls |-> Append(g.calls, "get_info")]

\* CephfsInfo.to_uri
CephfsInfo_to_uri(self, store) ==
    CephfsInfo_to_uri_with(self, _get_or_create_auth_secret(self, store))

\* CephfsInfo.grant after _get_or_create_auth_secret gave g
CephfsInfo_grant_with(g, relation) ==
    [ret |-> Ok(""),
     secrets |-> [g.secrets EXCEPT ![g.secret].grants = @ \cup {relation}],
     calls |-> Append(g.calls, "grant")]

\* CephfsInfo.grant
CephfsInfo_grant(self, store, relation) ==
    CephfsInfo_grant_with(_get_or_create_auth_secret(self, store), relation)

---------------------------------------------------------------------------
(* The registry *)

\* _uri_to_fs_info, had it dispatched on the scheme that urlparse reads
_uri_to_fs_info_parsed_scheme(uri, store) ==
    IF ~Returned(UrlParse(uri)) THEN NoCalls(UrlParse(uri), store)
    ELSE IF UrlParse(uri).val.scheme = NfsInfo_filesystem_type
    THEN [ret |-> NfsInfo_from_uri(uri), secrets |-> store, calls |-> <<>>]
    ELSE IF UrlParse(uri).val.scheme = CephfsInfo_filesystem_type
    THEN CephfsInfo_from_uri(uri, store)
    ELSE NoCalls(Raise("FilesystemInfoError",
                       "unsupported filesystem type " \o UrlParse(uri).val.scheme), store)

\* _uri_to_fs_info
_uri_to_fs_info(uri, store) ==
    LET scheme == Split(uri, "://")[1]
    IN  IF scheme = NfsInfo_filesystem_type
        THEN [ret |-> NfsInfo_from_uri(uri), secrets |-> store, calls |-> <<>>]
        ELSE IF scheme = CephfsInfo_filesystem_type
        THEN CephfsInfo_from_uri(uri, store)
        ELSE [ret |-> Raise("FilesystemInfoError", "unsupported filesystem type " \o scheme),
              secrets |-> store, calls |-> <<>>]

---------------------------------------------------------------------------
(* The status pool of utils/status.py.  A Status is [label, name, message, *)
(* never_set], name and message those of its ops status; a saved status is *)
(* [label, status, message].  A dict of them is a sequence in insertion    *)
(* order.                                                                  *)

_status_priority(name) ==
    CASE name = "error" -> 6
      [] name = "blocked" -> 5
      [] name = "waiting" -> 4
      [] name = "maintenance" -> 3
      [] name = "active" -> 2
      [] name = "unknown" -> 1

\* Status(label=label, status=status): never_set keeps its default
Status(label, name, message) ==
    [label |-> label, name |-> name, message |-> message, never_set |-> TRUE]

\* Status.message
Status_message(status) == IF status.name = "unknown" THEN "" ELSE status.message

\* Status.dict, with the label it is saved under
Status_dict(status) ==
    [label |-> status.label, status |-> status.name, message |-> Status_message(status)]

\* the positions of a label in a dict of statuses
Labelled(d, label) == {i \in 1..Len(d) : d[i].label = label}

\* StatusBase.from_name(name, message) put into the Status status
FromName(status, name, message) ==
    [status EXCEPT !.name = name, !.message = IF name = "unknown" THEN "" ELSE message]

\* StatusPool.add up to its assignment to _pool: the status that is stored, a
\* saved status reconstituted when this one was never set and never pooled
Reconstituted(pool, state, status) ==
    IF status.never_set /\ Labelled(state, status.label) # {}
        /\ Labelled(pool, status.label) = {}
    THEN IF Status_message(status) # state[MinOf(Labelled(state, status.label))].message
         THEN FromName(status, state[MinOf(Labelled(state, status.label))].status,
                       state[MinOf(Labelled(state, status.label))].message)
         ELSE status
    ELSE status

\* self._pool[status.label] = status
Pooled(pool, status) ==
    IF Labelled(pool, status.label) = {} THEN Append(pool, status)
    ELSE [pool EXCEPT ![MinOf(Labelled(pool, status.label))] = status]

\* StatusPool.add without its call of update: the pool it leaves
StatusPool_add(pool, state, status) == Pooled(pool, Reconstituted(pool, state, status))

\* heapq.nlargest(1, pool.values(), key=priority): the first status of the
\* highest priority, <<>> for an empty pool; no Status here has a local priority
Nlargest(pool) ==
    IF pool = <<>> THEN <<>>
    ELSE <<pool[MinOf({i \in 1..Len(pool) :
                \A j \in 1..Len(pool) :
                    _status_priority(pool[j].name) <= _status_priority(pool[i].name)})]>>

\* StatusPool.update once the highest status is chosen: the unit status it
\* sets.  Status.message is a property, a str, and line 150 calls it.
StatusPool_update_from(status) ==
    IF status = <<>> THEN Ok([name |-> "waiting", message |-> "No status set"])
    ELSE IF status[1].name = "unknown"
    THEN Ok([name |-> "waiting", message |-> "No status set"])
    ELSE IF status[1].name = "active"
    THEN Raise("TypeError", "'str' object is not callable")
    ELSE Ok([name |-> status[1].name, message |-> Status_message(status[1])])

\* StatusPool.update
StatusPool_update(pool) == StatusPool_update_from(Nlargest(pool))

\* StatusPool._on_commit: the statuses it saves
Saved(pool) == [i \in 1..Len(pool) |-> Status_dict(pool[i])]

\* dict.update({k: v})
DictUpdate(d, k, v) ==
    IF DictHas(d, k) THEN [i \in 1..Len(d) |-> IF d[i][1] = k THEN <<k, v>> ELSE d[i]]
    ELSE Append(d, <<k, v>>)

\* dict.update(items), the items a sequence of <<key, value>>
RECURSIVE DictUpdateAll(_, _)
DictUpdateAll(d, items) ==
    IF items = <<>> THEN d
    ELSE DictUpdateAll(DictUpdate(d, items[1][1], items[1][2]), Tail(items))

---------------------------------------------------------------------------
(* The nfs-share interface of storage_libs/v0/nfs_interfaces.py.  bags is   *)
(* the app databag of the unit's application on each relation, leader what *)
(* unit.is_leader() answers.                                               *)

\* _update_data, had it written the databag of every relation
_update_data_all(bags, leader, integration_id, items) ==
    IF leader THEN [r \in DOMAIN bags |-> DictUpdateAll(bags[r], items)] ELSE bags

\* _BaseInterface._update_data
_update_data(bags, leader, integration_id, items) ==
    IF leader THEN [bags EXCEPT ![integration_id] = DictUpdateAll(@, items)] ELSE bags

\* NFSProvides.set_endpoint
NFSProvides_set_endpoint(bags, leader, integration_id, e) ==
    IF leader THEN _update_data(bags, leader, integration_id, << <<"endpoint", e>> >>)
    ELSE bags

\* the params dict of request_share.  allowlist is <<"none">>, <<"str", s>> or
\* <<"list", l>>; size is <<>> for None, <<n>> for the int n.
ShareParams(name, allowlist, size) ==
    << <<"name", name>>,
       <<"allowlist", IF allowlist[1] = "str" THEN allowlist[2]
                      ELSE IF allowlist[1] = "list" THEN Join(allowlist[2], ",")
                      ELSE "0.0.0.0">>,
       <<"size", IF size = <<>> THEN "-1" ELSE IntStr(size[1])>> >>

\* request_share, had it not asked whether the unit is the leader
NFSRequires_request_share_any(bags, leader, integration_id, name, allowlist, size) ==
    [bags EXCEPT ![integration_id] = DictUpdateAll(@, ShareParams(name, allowlist, size))]

\* NFSRequires.request_share
NFSRequires_request_share(bags, leader, integration_id, name, allowlist, size) ==
    IF leader
    THEN _update_data(bags, leader, integration_id, ShareParams(name, allowlist, size))
    ELSE bags

---------------------------------------------------------------------------
(* json.dumps and json.loads of a dict of str to str, and _eval.  A unit's  *)
(* cache on a relation is <<>> when its databag has no cache key, <<text>>  *)
(* when it has.                                                            *)

\* the escapes of json.dumps for the characters of the alphabet
RECURSIVE Json_escape(_)
Json_escape(s) ==
    IF s = "" THEN ""
    ELSE (IF At(s, 1) = "\"" \/ At(s, 1) = "\\" THEN "\\" \o At(s, 1) ELSE At(s, 1))
             \o Json_escape(From(s, 2))

\* json.dumps(d), d a dict of str to str
Json_dumps(d) ==
    "{" \o Join([i \in 1..Len(d) |->
                    "\"" \o Json_escape(d[i][1]) \o "\": \"" \o Json_escape(d[i][2]) \o "\""],
                ", ") \o "}"

\* the JSON decoder past the whitespace at position i
RECURSIVE Json_skip(_, _)
Json_skip(s, i) == IF i <= Len(s) /\ At(s, i) = " " THEN Json_skip(s, i + 1) ELSE i

\* the JSON decoder inside a string, at position i with acc read so far:
\* <<the string, the position after its closing quote>>, <<>> when it fails
RECURSIVE Json_string(_, _, _)
Json_string(s, i, acc) ==
    IF i > Len(s) THEN <<>>
    ELSE IF At(s, i) = "\"" THEN <<acc, i + 1>>
    ELSE IF At(s, i) = "\\"
    THEN IF i + 1 <= Len(s) /\ (At(s, i + 1) = "\"" \/ At(s, i + 1) = "\\")
         THEN Json_string(s, i + 2, acc \o At(s, i + 1))
         ELSE <<>>
    ELSE Json_string(s, i + 1, acc \o At(s, i))

\* a quoted string that starts at position i, likewise
Json_quoted(s, i) ==
    IF i <= Len(s) /\ At(s, i) = "\"" THEN Json_string(s, i + 1, "") ELSE <<>>

\* the JSON decoder in an object, before a member at position i, acc the
\* members read so far: the dict, or <<"JSONDecodeError">> when it fails
RECURSIVE Json_members(_, _, _)
Json_value(s, key, v, acc) ==
    IF v = <<>> THEN <<"JSONDecodeError">>
    ELSE IF Json_skip(s, v[2]) > Len(s) THEN <<"JSONDecodeError">>
    ELSE IF At(s, Json_skip(s, v[2])) = ","
    THEN Json_members(s, Json_skip(s, Json_skip(s, v[2]) + 1),
                      DictUpdate(acc, key, v[1]))
    ELSE IF At(s, Json_skip(s, v[2])) = "}" /\ Json_skip(s, Json_skip(s, v[2]) + 1) > Len(s)
    THEN <<"dict", DictUpdate(acc, key, v[1])>>
    ELSE <<"JSONDecodeError">>

Json_key(s, k, acc) ==
    IF k = <<>> THEN <<"JSONDecodeError">>
    ELSE IF Json_skip(s, k[2]) > Len(s) \/ At(s, Json_skip(s, k[2])) # ":"
    THEN <<"JSONDecodeError">>
    ELSE Json_value(s, k[1], Json_quoted(s, Json_skip(s, Json_skip(s, k[2]) + 1)), acc)

Json_members(s, i, acc) == Json_key(s, Json_quoted(s, i), acc)

\* json.loads(s) for an object of strings: <<"dict", d>> or <<"JSONDecodeError">>
Json_loads(s) ==
    IF Json_skip(s, 1) > Len(s) \/ At(s, Json_skip(s, 1)) # "{" THEN <<"JSONDecodeError">>
    ELSE IF Json_skip(s, Json_skip(s, 1) + 1) <= Len(s)
            /\ At(s, Json_skip(s, Json_skip(s, 1) + 1)) = "}"
    THEN IF Json_skip(s, Json_skip(s, Json_skip(s, 1) + 1) + 1) > Len(s)
         THEN <<"dict", <<>> >>
         ELSE <<"JSONDecodeError">>
    ELSE Json_members(s, Json_skip(s, Json_skip(s, 1) + 1), <<>>)

\* dict.keys()
Keys(d) == {d[i][1] : i \in 1..Len(d)}

\* the items of a databag that _eval compares: those whose key is not "cache"
NotCache(item) == item[1] # "cache"

\* _eval once old_data and new_data are read: the transaction and the cache
\* that it writes to the bucket
Transaction(old_data, new_data) ==
    [added |-> Keys(new_data) \ Keys(old_data),
     changed |-> {key \in Keys(old_data) \cap Keys(new_data) :
                     DictGet(old_data, key) # DictGet(new_data, key)},
     deleted |-> Keys(old_data) \ Keys(new_data),
     cache |-> <<Json_dumps(new_data)>>]

\* _eval, had it written the cache without looking at the databag
_eval_unread(cached, bag) ==
    [added |-> {}, changed |-> {}, deleted |-> {}, cache |-> <<"{}">>]

\* _eval(event, bucket): cached is the bucket's cache, bag the databag of the
\* remote application
_eval(cached, bag) ==
    Transaction(Json_loads(IF cached = <<>> THEN "{}" ELSE cached[1])[2],
                SelectSeq(bag, NotCache))

---------------------------------------------------------------------------

(* The relation-changed handlers of the nfs-share interface.  They yield    *)
(* [cache, emit]: the cache of the unit after the handler, and whether it   *)
(* emitted its event.                                                      *)

\* NFSRequires._on_relation_changed once _eval gave t
NFSRequires_changed_with(t) == [cache |-> t.cache, emit |-> "endpoint" \in t.added]

\* NFSRequires._on_relation_changed, had it also looked at the changed keys
NFSRequires_on_relation_changed_or_changed(cached, bag) ==
    [cache |-> _eval(cached, bag).cache,
     emit |-> "endpoint" \in _eval(cached, bag).added \cup _eval(cached, bag).changed]

\* NFSRequires._on_relation_changed
NFSRequires_on_relation_changed(cached, bag) == NFSRequires_changed_with(_eval(cached, bag))

\* NFSProvides._on_relation_changed on the leader once _eval gave t
NFSProvides_changed_with(t) == [cache |-> t.cache, emit |-> "name" \in t.added]

\* NFSProvides._on_relation_changed, had it not asked whether the unit is the
\* leader
NFSProvides_on_relation_changed_any(leader, cached, bag) ==
    NFSProvides_changed_with(_eval(cached, bag))

\* NFSProvides._on_relation_changed
NFSProvides_on_relation_changed(leader, cached, bag) ==
    IF leader THEN NFSProvides_changed_with(_eval(cached, bag))
    ELSE [cache |-> cached, emit |-> FALSE]

---------------------------------------------------------------------------

(* The filesystem interface of filesystem_info.py.  bags is the app databag *)
(* of the provider on each relation, relation 0 the peer relation, which   *)
(* is established when 0 is in its domain.  An operation of the provider   *)
(* yields [ret, secrets, bags].                                            *)

\* FilesystemEvent.endpoint: the Endpoint in <<>>, or <<>> for None
FilesystemEvent_endpoint_of(uri, f) ==
    IF Returned(f.ret) THEN Ok(<<[info |-> f.ret.val, uri |-> uri]>>) ELSE f.ret

FilesystemEvent_endpoint(bag, store) ==
    IF DictGet(bag, "endpoint") = "" THEN Ok(<<>>)
    ELSE FilesystemEvent_endpoint_of(DictGet(bag, "endpoint"),
                                     _uri_to_fs_info(DictGet(bag, "endpoint"), store))

\* info.to_uri(model) of either variant: [ret, secrets, calls]
Info_to_uri(info, store) ==
    IF "fsid" \in DOMAIN info THEN CephfsInfo_to_uri(info, store)
    ELSE NoCalls(NfsInfo_to_uri(info), store)

\* info.grant(model, relation) of either variant: [ret, secrets, calls]
Info_grant(info, store, relation) ==
    IF "fsid" \in DOMAIN info THEN CephfsInfo_grant(info, store, relation)
    ELSE FilesystemInfo_grant(info, store, relation)

\* FilesystemProvides._endpoint: _get_state("endpoint"), None given as ""
Provides_endpoint(bags) ==
    IF 0 \in DOMAIN bags THEN DictGet(bags[0], "endpoint") ELSE ""

\* set_info, the loop over the relations rs that are left: grant, then write
RECURSIVE SetInfoLoop(_, _, _, _)
SetInfoLoop(rs, info, uri, st) ==
    IF rs = {} THEN st
    ELSE SetInfoLoop(rs \ {MinOf(rs)}, info, uri,
                     [ret |-> Ok(""),
                      secrets |-> Info_grant(info, st.secrets, MinOf(rs)).secrets,
                      bags |-> [st.bags EXCEPT ![MinOf(rs)] =
                                    DictUpdate(@, "endpoint", uri)]])

\* set_info on the leader after to_uri, had it not stored the endpoint on the
\* peer relation
SetInfoWith_unstored(t, info, bags) ==
    IF ~Returned(t.ret) THEN [ret |-> t.ret, secrets |-> t.secrets, bags |-> bags]
    ELSE SetInfoLoop(DOMAIN bags \ {0}, info, t.ret.val,
                     [ret |-> Ok(""), secrets |-> t.secrets, bags |-> bags])

\* set_info on the leader, after info.to_uri(self.model) gave t
SetInfoWith(t, info, bags) ==
    IF ~Returned(t.ret) THEN [ret |-> t.ret, secrets |-> t.secrets, bags |-> bags]
    ELSE IF 0 \notin DOMAIN bags
    THEN [ret |-> Raise("FilesystemInfoError",
                        "peer relation can only be accessed after the relation is established"),
          secrets |-> t.secrets, bags |-> bags]
    ELSE SetInfoLoop(DOMAIN bags \ {0}, info, t.ret.val,
                     [ret |-> Ok(""), secrets |-> t.secrets,
                      bags |-> [bags EXCEPT ![0] = DictUpdate(@, "endpoint", t.ret.val)]])

\* set_info, had it not asked whether the unit is the leader
FilesystemProvides_set_info_any(info, bags, store, leader) ==
    SetInfoWith(Info_to_uri(info, store), info, bags)

\* FilesystemProvides.set_info
FilesystemProvides_set_info(info, bags, store, leader) ==
    IF ~leader THEN [ret |-> Ok(""), secrets |-> store, bags |-> bags]
    ELSE SetInfoWith(Info_to_uri(info, store), info, bags)

\* _update_relation on the leader with an endpoint stored, after
\* _uri_to_fs_info(endpoint, self.model) gave f
UpdateRelationWith(f, relation, bags) ==
    IF ~Returned(f.ret) THEN [ret |-> f.ret, secrets |-> f.secrets, bags |-> bags]
    ELSE [ret |-> Ok(""),
          secrets |-> Info_grant(f.ret.val, f.secrets, relation).secrets,
          bags |-> [bags EXCEPT ![relation] =
                        DictUpdate(@, "endpoint", Provides_endpoint(bags))]]

\* FilesystemProvides._update_relation, the relation-joined handler
FilesystemProvides_update_relation(relation, bags, store, leader) ==
    IF ~leader \/ Provides_endpoint(bags) = ""
    THEN [ret |-> Ok(""), secrets |-> store, bags |-> bags]
    ELSE UpdateRelationWith(_uri_to_fs_info(Provides_endpoint(bags), store), relation, bags)

---------------------------------------------------------------------------
(* Inputs *)

MaxHosts == 2

MaxRevision == 3

\* the relations a provider has with requirers, at most
MaxRelations == 2

\* sequences over S of length 1..n
RECURSIVE SeqsUpTo(_, _)
SeqsUpTo(S, n) ==
    IF n = 0 THEN {}
    ELSE LET shorter == SeqsUpTo(S, n - 1)
         IN  {<<x>> : x \in S} \cup shorter \cup {Append(t, x) : t \in shorter, x \in S}

HostTokens == {"h", "Host", "192.168.1.1:2049", "192.168.227.11@tcp1"}

UserTokens == {"", "u", "fs user"}

PathTokens == {"", "/", "/export", "/a b", "/a?b"}

OptionDicts == {<<>>, << <<"fsid", "F">>, <<"name", "N">> >>, << <<"auth", "plain:a+b/c=">> >>}

\* every _UriData the constructor builds from the tokens
UriDataInputs ==
    {UriData_init(s, h, u, p, o).val :
        s \in {"nfs", "cephfs"}, h \in SeqsUpTo(HostTokens, MaxHosts),
        u \in UserTokens, p \in PathTokens, o \in OptionDicts}

\* endpoint URIs as a peer may write them
AuthorityTokens ==
    {"(192.168.1.1:2049)", "(192.168.1.1%3A2049)", "(192.168.1.1)", "(m1,m2,m3)",
     "(10.0.0.1)(10.0.0.2)", "()", "(h1", "h1)", "h1", ""}

UserInfoTokens == {"", "u@"}

FsidTokens == {"", "fsid=", "fsid=F"}

NameTokens == {"", "name=N"}

AuthTokens ==
    {"", "auth=plain:SECRETKEY", "auth=plain:a:b", "auth=secret:1", "auth=secret:7",
     "auth=token", "auth=secret", "auth=vault:x", "auth=PLAIN:k", "auth=:x"}

ExtraTokens == {"", "filesystem=fs_name"}

\* the query string made of the given fields, blank fields left out
Query(fields) ==
    IF SelectSeq(fields, LAMBDA f : f # "") = <<>> THEN ""
    ELSE "?" \o Join(SelectSeq(fields, LAMBDA f : f # ""), "&")

\* the URI of a CephFS endpoint, given its scheme, its user info and its fields
CephUri(s, u, f, n, a, x) ==
    s \o "://" \o u \o "(m1,m2,m3)/export" \o Query(<<f, n, a, x>>)

RawUris ==
    {s \o "://" \o u \o a \o "/export" \o q :
        s \in {"nfs", "cephfs"}, u \in UserInfoTokens, a \in AuthorityTokens,
        q \in {"", "?fsid=F&name=N&auth=plain:SECRETKEY"}}
    \cup
    {CephUri(s, u, f, n, a, x) :
        s \in {"cephfs", "ceph"}, u \in UserInfoTokens, f \in FsidTokens,
        n \in NameTokens, a \in AuthTokens, x \in ExtraTokens}
    \cup
    {s \o "://" \o a \o p :
        s \in {"nfs", "smb", "NFS"}, a \in {"(h1,h2)", "(10.0.0.1)(10.0.0.2)", "()"},
        p \in {"", "/x", "/x?a=b", "/x?a", "/x?a=%zz"}}

\* the CephFS descriptors a provider may encode
CephfsInputs ==
    {[fsid |-> "F", name |-> n, path |-> p, monitor_hosts |-> h, user |-> "u", key |-> k] :
        n \in {"N", "fs name"}, p \in {"/", "/export"},
        h \in {<<>>} \cup SeqsUpTo({"m1", "Host", "10.0.0.1:6789"}, MaxHosts),
        k \in {"K1", "a+b/c=="}}

\* the CephFS descriptors that are encoded at the same time
RaceInputs ==
    {x \in CephfsInputs : x.name = "N" /\ x.path = "/" /\ Len(x.monitor_hosts) <= 1}

\* the NFS descriptors a provider may encode
NfsInputs ==
    [hostname : {"h", "Host", "192.168.1.1", "::1", "FE80::1", ""},
     port : {<<>>, <<0>>, <<2049>>, <<65535>>},
     path : {"/", "/export", "/a b", ""}]

\* the app databags of two relations: empty, or the first with an endpoint
Databags ==
    {<< <<>>, <<>> >>, << << <<"endpoint", "nfs://(h)/x">> >>, <<>> >>}

\* the endpoint option of the charm config: not set, or one of two URIs
ConfigTokens ==
    {<<>>, <<"nfs://127.0.0.1/data">>, <<"nfs://127.0.0.1/polaris-research-data">>}

\* the descriptors a filesystem provider may set
FsInfos ==
    {[hostname |-> "192.168.1.1", port |-> <<>>, path |-> "/data"],
     [hostname |-> "::1", port |-> <<2049>>, path |-> "/export"],
     [fsid |-> "F", name |-> "N", path |-> "/", monitor_hosts |-> <<"m1">>,
      user |-> "u", key |-> "K1"],
     [fsid |-> "F", name |-> "N", path |-> "/", monitor_hosts |-> <<"m1">>,
      user |-> "u", key |-> "a+b/c=="]}

\* the allowlist and size arguments of request_share
AllowlistTokens == {<<"none">>, <<"str", "10.0.0.1">>, <<"list", <<"10.0.0.1", "10.0.0.2">> >>}

SizeTokens == {<<>>, <<10>>}

\* the allowlist arguments of the client whose relation-changed events are
\* followed: none, and a str that holds a quote and a backslash
ChangedAllowlists == {<<"none">>, <<"str", "10.0.0.1 \"lab\\a\"">>}

\* host tokens: a hostname part, plain or in brackets, and a port part
PlainHostTokens ==
    {"h", "Host", "192.168.1.1", "a b", "192.168.227.11@tcp1", "m-1.example.com"}

AddrTokens == {"::1", "FE80::1", "2001:db8::ff00:42:8329", "h"}

HostnameTokens ==
    PlainHostTokens \cup {"[" \o a \o "]" : a \in AddrTokens}
        \cup {"", "h]", "[::1", "[::1]x", "[::1]]"}

\* the port parts that read as an integer that is not negative, with the integer
PortNumbers ==
    {<<":0", 0>>, <<":1", 1>>, <<":2049", 2049>>, <<":65536", 65536>>, <<":+5", 5>>,
     <<": 80 ", 80>>, <<":1_0", 10>>}

PortTokens == {"", ":", ":x", ":-1", ":80:90", ":0x50", ":8 0"} \cup {n[1] : n \in PortNumbers}

HostInputs == {h \o p : h \in HostnameTokens, p \in PortTokens}

\* the secret stores a unit may start from: none, or an auth secret that an
\* earlier hook created, alone or after another secret of the charm
Stores ==
    {<<>>,
     <<[id |-> SecretId(1), label |-> "auth", key |-> "K0", revision |-> 1, grants |-> {}]>>,
     <<[id |-> SecretId(1), label |-> "tls", key |-> "T", revision |-> 1, grants |-> {}],
       [id |-> SecretId(2), label |-> "auth", key |-> "K0", revision |-> 2, grants |-> {}]>>}

---------------------------------------------------------------------------
(* Operations *)

\* str(x) of the _UriData that was drawn
Str ==
    /\ op = "init"
    /\ sent[1] = "UriData"
    /\ wire' = UriData_str(sent[2])
    /\ ret' = Ok(wire')
    /\ op' = "_UriData.__str__"
    /\ calls' = <<>>
    /\ UNCHANGED <<sent, secrets>>
    /\ UNCHANGED others

\* _UriData.from_uri(wire)
FromUri ==
    /\ op # "init" \/ sent[1] = "raw"
    /\ ret' = UriData_from_uri(wire)
    /\ op' = "_UriData.from_uri"
    /\ calls' = <<>>
    /\ UNCHANGED <<wire, sent, secrets>>
    /\ UNCHANGED others

\* NfsInfo.from_uri(wire, model)
NfsFromUri ==
    /\ op # "init" \/ sent[1] = "raw"
    /\ ret' = NfsInfo_from_uri(wire)
    /\ op' = "NfsInfo.from_uri"
    /\ calls' = <<>>
    /\ UNCHANGED <<wire, sent, secrets>>
    /\ UNCHANGED others

\* CephfsInfo.from_uri(wire, model)
CephfsFromUri ==
    /\ op # "init" \/ sent[1] = "raw"
    /\ \E r \in {CephfsInfo_from_uri(wire, secrets)} :
           /\ ret' = r.ret
           /\ calls' = r.calls
           /\ secrets' = r.secrets
    /\ op' = "CephfsInfo.from_uri"
    /\ UNCHANGED <<wire, sent>>
    /\ UNCHANGED others

\* _uri_to_fs_info(wire, model)
UriToFsInfo ==
    /\ op # "init" \/ sent[1] = "raw"
    /\ \E r \in {_uri_to_fs_info(wire, secrets)} :
           /\ ret' = r.ret
           /\ calls' = r.calls
           /\ secrets' = r.secrets
    /\ op' = "_uri_to_fs_info"
    /\ UNCHANGED <<wire, sent>>
    /\ UNCHANGED others

\* x.to_uri(model) of the CephfsInfo that was drawn; the URI it returns goes
\* on the wire
CephfsToUri ==
    /\ sent[1] = "CephfsInfo"
    /\ \A i \in 1..Len(secrets) : secrets[i].revision < MaxRevision
    /\ \E r \in {CephfsInfo_to_uri(sent[2], secrets)} :
           /\ ret' = r.ret
           /\ calls' = r.calls
           /\ secrets' = r.secrets
           /\ wire' = IF Returned(r.ret) THEN r.ret.val ELSE wire
    /\ op' = "CephfsInfo.to_uri"
    /\ UNCHANGED sent
    /\ UNCHANGED others

\* another descriptor is encoded on the same model, after the descriptor that
\* was drawn: y.to_uri(model), its URI not the one that is exchanged
CephfsOtherToUri ==
    /\ sent[1] = "CephfsInfo"
    /\ wire # ""
    /\ \A i \in 1..Len(secrets) : secrets[i].revision < MaxRevision
    /\ \E y \in RaceInputs \ {sent[2]} :
       \E r \in {CephfsInfo_to_uri(y, secrets)} :
           /\ ret' = r.ret
           /\ calls' = r.calls
           /\ secrets' = r.secrets
    /\ op' = "other.to_uri"
    /\ UNCHANGED <<wire, sent>>
    /\ UNCHANGED others

\* another descriptor is granted to a relation on the same model:
\* y.grant(model, relation)
CephfsOtherGrant ==
    /\ sent[1] = "CephfsInfo"
    /\ wire # ""
    /\ \A i \in 1..Len(secrets) : secrets[i].revision < MaxRevision
    /\ \E y \in RaceInputs \ {sent[2]}, relation \in 1..MaxRelations :
       \E r \in {CephfsInfo_grant(y, secrets, relation)} :
           /\ ret' = r.ret
           /\ calls' = r.calls
           /\ secrets' = r.secrets
    /\ op' = "other.grant"
    /\ UNCHANGED <<wire, sent>>
    /\ UNCHANGED others

\* _hostinfo(h) of the host token that was drawn
HostInfo ==
    /\ op = "init"
    /\ sent[1] = "host"
    /\ ret' = _hostinfo(sent[2])
    /\ op' = "_hostinfo"
    /\ calls' = <<>>
    /\ UNCHANGED <<wire, sent, secrets>>
    /\ UNCHANGED others

\* x.to_uri(model) of the NfsInfo that was drawn; the URI it returns goes on
\* the wire
NfsToUri ==
    /\ sent[1] = "NfsInfo"
    /\ ret' = NfsInfo_to_uri(sent[2])
    /\ wire' = IF Returned(ret') THEN ret'.val ELSE wire
    /\ op' = "NfsInfo.to_uri"
    /\ calls' = <<>>
    /\ UNCHANGED <<sent, secrets>>
    /\ UNCHANGED others

\* x.grant(model, relation) of the NfsInfo that was drawn
NfsGrant ==
    /\ sent[1] = "NfsInfo"
    /\ \E relation \in DOMAIN data :
           \E r \in {FilesystemInfo_grant(sent[2], secrets, relation)} :
               /\ ret' = r.ret
               /\ calls' = r.calls
               /\ secrets' = r.secrets
    /\ op' = "NfsInfo.grant"
    /\ UNCHANGED <<wire, sent>>
    /\ UNCHANGED others

\* The statements of CephfsInfo.to_uri that call the store, for the calls that
\* run at the same time.  Nothing in to_uri or _get_or_create_auth_secret takes
\* a lock, so any statement of one call may run between two of another.

\* thread t: model.get_secret(label="auth"), SecretNotFoundError caught
GetSecret(t) ==
    /\ threads[t].pc = "get_secret"
    /\ \E i \in {GetSecretByLabel(secrets, "auth")} :
           threads' = [threads EXCEPT ![t].secret = i,
                                      ![t].pc = IF i # 0 THEN "set_content"
                                                ELSE "add_secret"]
    /\ UNCHANGED <<wire, sent, op, ret, secrets, calls, charm>>

\* thread t: secret.set_content({"key": self.key})
SetContent(t) ==
    /\ threads[t].pc = "set_content"
    /\ secrets' = [secrets EXCEPT ![threads[t].secret].key = threads[t].self.key,
                                  ![threads[t].secret].revision = @ + 1]
    /\ threads' = [threads EXCEPT ![t].pc = "get_info"]
    /\ UNCHANGED <<wire, sent, op, ret, calls, charm>>

\* thread t: model.app.add_secret({"key": self.key}, label="auth", ...).  What
\* the store does when a secret labelled auth was added meanwhile is the
\* store's own: it adds a second one, or it refuses and ModelError leaves
\* to_uri, which catches SecretNotFoundError only.
AddSecret(t) ==
    /\ threads[t].pc = "add_secret"
    /\ \/ /\ secrets' = Append(secrets, [id |-> SecretId(Len(secrets) + 1),
                                         label |-> "auth", key |-> threads[t].self.key,
                                         revision |-> 1, grants |-> {}])
          /\ threads' = [threads EXCEPT ![t].secret = Len(secrets) + 1,
                                        ![t].pc = "get_info"]
       \/ /\ GetSecretByLabel(secrets, "auth") # 0
          /\ threads' = [threads EXCEPT ![t].ret = Raise("ModelError", "add_secret"),
                                        ![t].pc = "done"]
          /\ UNCHANGED secrets
    /\ UNCHANGED <<wire, sent, op, ret, calls, charm>>

\* thread t: secret.get_info().revision, and the URI is built and returned
GetInfo(t) ==
    /\ threads[t].pc = "get_info"
    /\ \E r \in {CephfsInfo_to_uri_with(threads[t].self,
                     [secrets |-> secrets, secret |-> threads[t].secret, calls |-> <<>>])} :
           threads' = [threads EXCEPT ![t].ret = r.ret, ![t].pc = "done"]
    /\ UNCHANGED <<wire, sent, op, ret, secrets, calls, charm>>

\* The handlers of NFSServerProxyCharm.  A handler runs on the charm object of
\* the hook in progress; an exception that leaves it ends the hook.

\* config-changed: the endpoint option is c, and _on_config_changed runs
ConfigChanged ==
    /\ Returned(ret)
    /\ \E c \in ConfigTokens :
       \E first \in {IF c = <<>>
                     THEN StatusPool_add(_pool, _status_state,
                              Status("no_endpoint", "blocked", "No configured endpoint"))
                     ELSE _pool} :
       \E second \in {StatusPool_add(first, _status_state,
                          Status("ready", "active", "Exporting share"))} :
           /\ config' = c
           /\ endpoint' = IF c # <<>> /\ endpoint = <<>> THEN c ELSE endpoint
           /\ _pool' = second
           /\ ret' = IF Returned(StatusPool_update(second)) THEN Ok("")
                     ELSE StatusPool_update(second)
           /\ unit_status' = IF Returned(StatusPool_update(second))
                             THEN StatusPool_update(second).val
                             ELSE IF c = <<>> THEN StatusPool_update(first).val
                             ELSE unit_status
    /\ op' = "_on_config_changed"
    /\ sent' = <<"config_changed", "">>
    /\ UNCHANGED <<wire, secrets, calls, threads, _status_state, deferred, data,
                   is_leader, snapshot, cache, emitted>>

\* share_requested on a relation, emitted or emitted again after it was
\* deferred, and _on_share_requested runs
ShareRequested ==
    /\ Returned(ret)
    /\ \E relation \in DOMAIN data :
           /\ sent' = <<"share_requested", relation>>
           /\ IF endpoint = <<>>
              THEN \E pool \in {StatusPool_add(_pool, _status_state,
                                    Status("no_endpoint", "unknown", ""))} :
                       /\ _pool' = pool
                       /\ IF Returned(StatusPool_update(pool))
                          THEN /\ unit_status' = StatusPool_update(pool).val
                               /\ deferred' = deferred \cup {relation}
                               /\ ret' = Ok("")
                          ELSE /\ ret' = StatusPool_update(pool)
                               /\ UNCHANGED <<unit_status, deferred>>
                       /\ UNCHANGED data
              ELSE /\ data' = NFSProvides_set_endpoint(data, is_leader, relation,
                                                       endpoint[1])
                   /\ deferred' = deferred \ {relation}
                   /\ ret' = Ok("")
                   /\ UNCHANGED <<_pool, unit_status>>
    /\ op' = "_on_share_requested"
    /\ UNCHANGED <<wire, secrets, calls, threads, endpoint, config, _status_state,
                   is_leader, snapshot, cache, emitted>>

\* the hook ends well: the framework commits, StatusPool._on_commit saves the
\* statuses of the pool, and the next hook builds its charm from what is stored
Commit ==
    /\ Returned(ret)
    /\ snapshot' = [endpoint |-> endpoint, statuses |-> Saved(_pool)]
    /\ _status_state' = Saved(_pool)
    /\ _pool' = <<>>
    /\ op' = "commit"
    /\ UNCHANGED <<wire, sent, ret, secrets, calls, threads, endpoint, config,
                   unit_status, deferred, data, is_leader, cache, emitted>>

\* the hook ends with the exception of a handler: nothing is committed, and
\* the next hook builds its charm from what was stored before
Crash ==
    /\ ~Returned(ret)
    /\ endpoint' = snapshot.endpoint
    /\ _status_state' = snapshot.statuses
    /\ _pool' = <<>>
    /\ ret' = Ok("")
    /\ op' = "crash"
    /\ UNCHANGED <<wire, sent, secrets, calls, threads, config, unit_status, deferred,
                   data, is_leader, snapshot, cache, emitted>>

\* The filesystem interface: the hooks of a provider unit and of a requirer
\* unit on the relations between the two applications.

\* a relation is created: the peer relation (0) or a relation with a requirer
RelationCreated ==
    /\ \E r \in 0..MaxRelations :
           /\ r \notin DOMAIN data
           /\ data' = [x \in DOMAIN data \cup {r} |-> IF x = r THEN <<>> ELSE data[x]]
           /\ sent' = <<"relation_created", r>>
    /\ op' = "relation_created"
    /\ ret' = Ok("")
    /\ calls' = <<>>
    /\ UNCHANGED <<wire, secrets, threads, endpoint, config, unit_status, _pool,
                   _status_state, deferred, is_leader, snapshot, cache, emitted>>

\* the unit of the provider that runs the hooks gains or loses leadership
LeaderChanged ==
    /\ is_leader' = ~is_leader
    /\ op' = "leader_changed"
    /\ ret' = Ok("")
    /\ calls' = <<>>
    /\ UNCHANGED <<wire, sent, secrets, threads, endpoint, config, unit_status, _pool,
                   _status_state, deferred, data, snapshot, cache, emitted>>

\* the provider charm calls set_info(info)
SetInfo ==
    /\ \A i \in 1..Len(secrets) : secrets[i].revision < MaxRevision
    /\ \E info \in FsInfos :
       \E r \in {FilesystemProvides_set_info(info, data, secrets, is_leader)} :
           /\ sent' = <<"set_info", info>>
           /\ ret' = r.ret
           /\ secrets' = r.secrets
           /\ data' = r.bags
    /\ op' = "set_info"
    /\ calls' = <<>>
    /\ UNCHANGED <<wire, threads, endpoint, config, unit_status, _pool, _status_state,
                   deferred, is_leader, snapshot, cache, emitted>>

\* relation-joined on a relation with a requirer: _update_relation runs
RelationJoined ==
    /\ \A i \in 1..Len(secrets) : secrets[i].revision < MaxRevision
    /\ \E relation \in DOMAIN data \ {0} :
       \E r \in {FilesystemProvides_update_relation(relation, data, secrets, is_leader)} :
           /\ sent' = <<"relation_joined", relation>>
           /\ ret' = r.ret
           /\ secrets' = r.secrets
           /\ data' = r.bags
    /\ op' = "_update_relation"
    /\ calls' = <<>>
    /\ UNCHANGED <<wire, threads, endpoint, config, unit_status, _pool, _status_state,
                   deferred, is_leader, snapshot, cache, emitted>>

\* relation-changed on the requirer: FilesystemRequires._on_relation_changed
\* emits mount_filesystem, and the handler of the event reads event.endpoint
MountFilesystem ==
    /\ \E relation \in DOMAIN data \ {0} :
           /\ sent' = <<"mount_filesystem", relation>>
           /\ ret' = FilesystemEvent_endpoint(data[relation], secrets)
    /\ op' = "mount_filesystem"
    /\ calls' = <<>>
    /\ UNCHANGED <<wire, secrets, threads, endpoint, config, unit_status, _pool,
                   _status_state, deferred, data, is_leader, snapshot, cache, emitted>>

\* The nfs-share interface: the calls a charm makes on a unit of its
\* application, data the app databag of that application.

\* the client charm calls request_share
RequestShare ==
    /\ \E integration_id \in DOMAIN data, name \in {"share", "data"},
          allowlist \in AllowlistTokens, size \in SizeTokens :
           /\ sent' = <<"request_share", integration_id>>
           /\ data' = NFSRequires_request_share(data, is_leader, integration_id, name,
                                                allowlist, size)
    /\ op' = "request_share"
    /\ ret' = Ok("")
    /\ calls' = <<>>
    /\ UNCHANGED <<wire, secrets, threads, endpoint, config, unit_status, _pool,
                   _status_state, deferred, is_leader, snapshot, cache, emitted>>

\* the server charm calls set_endpoint
SetEndpoint ==
    /\ \E integration_id \in DOMAIN data, e \in ConfigTokens \ {<<>>} :
           /\ sent' = <<"set_endpoint", integration_id>>
           /\ data' = NFSProvides_set_endpoint(data, is_leader, integration_id, e[1])
    /\ op' = "set_endpoint"
    /\ ret' = Ok("")
    /\ calls' = <<>>
    /\ UNCHANGED <<wire, secrets, threads, endpoint, config, unit_status, _pool,
                   _status_state, deferred, is_leader, snapshot, cache, emitted>>

\* The nfs-share interface, relation-changed: an application with two units
\* that provides on relation 1, where the remote application is a client, and
\* requires on relation 2, where it is a server.  data is the app databag of
\* the remote application on each relation.

\* unit 1 is the leader when is_leader, unit 2 when not
Units == {1, 2}

Leads(unit) == IF unit = 1 THEN is_leader ELSE ~is_leader

\* the leader of the client application calls request_share on relation 1
ClientRequestsShare ==
    /\ \E allowlist \in ChangedAllowlists :
           data' = NFSRequires_request_share(data, TRUE, 1, "share", allowlist, <<>>)
    /\ sent' = <<"request_share", 1>>
    /\ op' = "request_share"
    /\ ret' = Ok("")
    /\ calls' = <<>>
    /\ UNCHANGED <<wire, secrets, threads, endpoint, config, unit_status, _pool,
                   _status_state, deferred, is_leader, snapshot, cache, emitted>>

\* the leader of the server application calls set_endpoint on relation 2
ServerSetsEndpoint ==
    /\ \E e \in ConfigTokens \ {<<>>} :
           data' = NFSProvides_set_endpoint(data, TRUE, 2, e[1])
    /\ sent' = <<"set_endpoint", 2>>
    /\ op' = "set_endpoint"
    /\ ret' = Ok("")
    /\ calls' = <<>>
    /\ UNCHANGED <<wire, secrets, threads, endpoint, config, unit_status, _pool,
                   _status_state, deferred, is_leader, snapshot, cache, emitted>>

\* relation-changed on relation 1 is dispatched to a unit:
\* NFSProvides._on_relation_changed runs
ProvidesChanged ==
    /\ \E unit \in Units :
       \E r \in {NFSProvides_on_relation_changed(Leads(unit), cache[unit][1], data[1])} :
           /\ cache' = [cache EXCEPT ![unit][1] = r.cache]
           /\ emitted' = [emitted EXCEPT ![unit][1] = IF r.emit THEN @ + 1 ELSE @]
           /\ sent' = <<"relation_changed", <<unit, 1>> >>
    /\ op' = "NFSProvides._on_relation_changed"
    /\ ret' = Ok("")
    /\ calls' = <<>>
    /\ UNCHANGED <<wire, secrets, threads, endpoint, config, unit_status, _pool,
                   _status_state, deferred, data, is_leader, snapshot>>

\* relation-changed on relation 2 is dispatched to a unit:
\* NFSRequires._on_relation_changed runs
RequiresChanged ==
    /\ \E unit \in Units :
       \E r \in {NFSRequires_on_relation_changed(cache[unit][2], data[2])} :
           /\ cache' = [cache EXCEPT ![unit][2] = r.cache]
           /\ emitted' = [emitted EXCEPT ![unit][2] = IF r.emit THEN @ + 1 ELSE @]
           /\ sent' = <<"relation_changed", <<unit, 2>> >>
    /\ op' = "NFSRequires._on_relation_changed"
    /\ ret' = Ok("")
    /\ calls' = <<>>
    /\ UNCHANGED <<wire, secrets, threads, endpoint, config, unit_status, _pool,
                   _status_state, deferred, data, is_leader, snapshot>>

---------------------------------------------------------------------------
(* Specifications *)

\* _UriData: a value is drawn, encoded and decoded again
InitUri ==
    /\ wire = ""
    /\ sent \in {<<"UriData", x>> : x \in UriDataInputs}
    /\ op = "init"
    /\ ret = Ok("")
    /\ secrets = <<>>
    /\ calls = <<>>
    /\ Idle

NextUri == Str \/ FromUri

SpecUri == InitUri /\ [][NextUri]_vars

\* decoding: a URI written by a peer is given to the decoders
InitDecode ==
    /\ wire \in RawUris
    /\ sent = <<"raw", "">>
    /\ op = "init"
    /\ ret = Ok("")
    /\ secrets \in Stores
    /\ calls = <<>>
    /\ Idle

NextDecode == FromUri \/ NfsFromUri \/ CephfsFromUri \/ UriToFsInfo

SpecDecode == InitDecode /\ [][NextDecode]_vars

\* CephFS: a descriptor is drawn, encoded against the secret store, and the
\* URI is decoded against the same store
InitCeph ==
    /\ wire = ""
    /\ sent \in {<<"CephfsInfo", x>> : x \in CephfsInputs}
    /\ op = "init"
    /\ ret = Ok("")
    /\ secrets \in Stores
    /\ calls = <<>>
    /\ Idle

NextCeph == CephfsToUri \/ CephfsFromUri

SpecCeph == InitCeph /\ [][NextCeph]_vars

\* CephFS, several descriptors on one model: a descriptor is drawn and
\* encoded, other descriptors are encoded and granted on the same model, and
\* the URI of the first is decoded
InitShared ==
    /\ wire = ""
    /\ sent \in {<<"CephfsInfo", x>> : x \in RaceInputs}
    /\ op = "init"
    /\ ret = Ok("")
    /\ secrets \in Stores
    /\ calls = <<>>
    /\ Idle

NextShared == CephfsToUri \/ CephfsOtherToUri \/ CephfsOtherGrant \/ CephfsFromUri

SpecShared == InitShared /\ [][NextShared]_vars

\* the host parser: a host token is drawn and parsed
InitHost ==
    /\ wire = ""
    /\ sent \in {<<"host", h>> : h \in HostInputs}
    /\ op = "init"
    /\ ret = Ok("")
    /\ secrets = <<>>
    /\ calls = <<>>
    /\ Idle

NextHost == HostInfo

SpecHost == InitHost /\ [][NextHost]_vars

\* CephFS, two encodings at the same time: two descriptors are drawn and their
\* to_uri calls run against the same store, one statement at a time
InitRace ==
    /\ wire = ""
    /\ sent = <<"raw", "">>
    /\ op = "init"
    /\ ret = Ok("")
    /\ secrets \in Stores
    /\ calls = <<>>
    /\ NoCharm
    /\ threads \in {<<[self |-> a, pc |-> "get_secret", secret |-> 0, ret |-> Ok("")],
                      [self |-> b, pc |-> "get_secret", secret |-> 0, ret |-> Ok("")]>> :
                        a \in RaceInputs, b \in RaceInputs}

NextRace ==
    \/ \E t \in DOMAIN threads : GetSecret(t)
    \/ \E t \in DOMAIN threads : SetContent(t)
    \/ \E t \in DOMAIN threads : AddSecret(t)
    \/ \E t \in DOMAIN threads : GetInfo(t)

SpecRace == InitRace /\ [][NextRace]_vars

\* NFS: a descriptor is drawn, encoded, the URI decoded, and the descriptor
\* granted to a relation, on a model that has secrets and relations
InitNfs ==
    /\ wire = ""
    /\ sent \in {<<"NfsInfo", x>> : x \in NfsInputs}
    /\ op = "init"
    /\ ret = Ok("")
    /\ secrets \in Stores
    /\ calls = <<>>
    /\ threads = <<>>
    /\ endpoint = <<>>
    /\ config = <<>>
    /\ unit_status = [name |-> "unknown", message |-> ""]
    /\ _pool = <<>>
    /\ _status_state = <<>>
    /\ deferred = {}
    /\ data \in Databags
    /\ is_leader = TRUE
    /\ snapshot = [endpoint |-> <<>>, statuses |-> <<>>]
    /\ cache = <<>>
    /\ emitted = <<>>

NextNfs == NfsToUri \/ NfsFromUri \/ NfsGrant

SpecNfs == InitNfs /\ [][NextNfs]_vars

\* the proxy charm: hooks run on a unit that has two nfs-share relations.  The
\* unit starts with nothing stored, or with an endpoint stored as the unit
\* tests patch it into _stored.
InitCharm ==
    /\ wire = ""
    /\ sent = <<"raw", "">>
    /\ op = "init"
    /\ ret = Ok("")
    /\ secrets = <<>>
    /\ calls = <<>>
    /\ threads = <<>>
    /\ snapshot \in {[endpoint |-> e, statuses |-> <<>>] :
                        e \in {<<>>, <<"nfs://127.0.0.1/polaris-research-data">>}}
    /\ endpoint = snapshot.endpoint
    /\ config = <<>>
    /\ unit_status \in {[name |-> "unknown", message |-> ""],
                        [name |-> "maintenance", message |-> "installing charm software"]}
    /\ _pool = <<>>
    /\ _status_state = <<>>
    /\ deferred = {}
    /\ data = << <<>>, <<>> >>
    /\ is_leader \in BOOLEAN
    /\ cache = <<>>
    /\ emitted = <<>>

NextCharm == ConfigChanged \/ ShareRequested \/ Commit \/ Crash

SpecCharm == InitCharm /\ [][NextCharm]_vars

\* the proxy charm with hooks that keep being dispatched.  A hook that is
\* running ends, with a commit or with the exception of its handler; each
\* dispatch emits again the share_requested events that were deferred; and the
\* unit keeps being told of its configuration (a config-changed hook that
\* failed is run again).
Reemit(relation) == relation \in deferred /\ ShareRequested /\ sent'[2] = relation

Redispatch == ConfigChanged /\ config' = config

FairCharm ==
    /\ WF_vars(Commit)
    /\ WF_vars(Crash)
    /\ SF_vars(Redispatch)
    /\ \A relation \in 1..2 : SF_vars(Reemit(relation))

SpecCharmFair == SpecCharm /\ FairCharm

\* the filesystem interface: relations are created, the provider sets its
\* info and handles relation-joined, the requirer handles relation-changed
InitFs ==
    /\ wire = ""
    /\ sent = <<"raw", "">>
    /\ op = "init"
    /\ ret = Ok("")
    /\ secrets = <<>>
    /\ calls = <<>>
    /\ threads = <<>>
    /\ endpoint = <<>>
    /\ config = <<>>
    /\ unit_status = [name |-> "unknown", message |-> ""]
    /\ _pool = <<>>
    /\ _status_state = <<>>
    /\ deferred = {}
    /\ data = <<>>
    /\ is_leader \in BOOLEAN
    /\ snapshot = [endpoint |-> <<>>, statuses |-> <<>>]
    /\ cache = <<>>
    /\ emitted = <<>>

NextFs == RelationCreated \/ LeaderChanged \/ SetInfo \/ RelationJoined \/ MountFilesystem

SpecFs == InitFs /\ [][NextFs]_vars

\* the nfs-share interface: the calls of the charm on a unit that has two
\* relations and that may gain and lose leadership
InitShare ==
    /\ wire = ""
    /\ sent = <<"raw", "">>
    /\ op = "init"
    /\ ret = Ok("")
    /\ secrets = <<>>
    /\ calls = <<>>
    /\ threads = <<>>
    /\ endpoint = <<>>
    /\ config = <<>>
    /\ unit_status = [name |-> "unknown", message |-> ""]
    /\ _pool = <<>>
    /\ _status_state = <<>>
    /\ deferred = {}
    /\ data = << <<>>, <<>> >>
    /\ is_leader \in BOOLEAN
    /\ snapshot = [endpoint |-> <<>>, statuses |-> <<>>]
    /\ cache = <<>>
    /\ emitted = <<>>

NextShare == RequestShare \/ SetEndpoint \/ LeaderChanged

SpecShare == InitShare /\ [][NextShare]_vars

\* the nfs-share interface, relation-changed: the remote applications write
\* their databags, leadership moves between the two units, and relation-changed
\* is dispatched to them.  A remote application may keep a cache key of its
\* own in its app databag.
InitChanged ==
    /\ wire = ""
    /\ sent = <<"raw", "">>
    /\ op = "init"
    /\ ret = Ok("")
    /\ secrets = <<>>
    /\ calls = <<>>
    /\ threads = <<>>
    /\ endpoint = <<>>
    /\ config = <<>>
    /\ unit_status = [name |-> "unknown", message |-> ""]
    /\ _pool = <<>>
    /\ _status_state = <<>>
    /\ deferred = {}
    /\ data \in {<<bag, bag>> : bag \in {<<>>, << <<"cache", "{}">> >>}}
    /\ is_leader \in BOOLEAN
    /\ snapshot = [endpoint |-> <<>>, statuses |-> <<>>]
    /\ cache = [unit \in Units |-> [relation \in 1..2 |-> <<>>]]
    /\ emitted = [unit \in Units |-> [relation \in 1..2 |-> 0]]

NextChanged ==
    ClientRequestsShare \/ ServerSetsEndpoint \/ ProvidesChanged \/ RequiresChanged
        \/ LeaderChanged

SpecChanged == InitChanged /\ [][NextChanged]_vars

---------------------------------------------------------------------------
(* Properties *)

\* the secrets of a store that are labelled auth
AuthSecrets(store) == {i \in 1..Len(store) : store[i].label = "auth"}

\* the host list of an authority lacks a parenthesis or has nothing inside
MalformedHosts(a) == ~Has(a, "(") \/ ~Has(a, ")") \/ a = "()"

\* the value of a query field "key=value"
FieldValue(f) == Partition(f, "=")[3]

\* C1: for every _UriData x that the constructor accepts, decoding str(x) with
\* _UriData.from_uri succeeds and gives a value equal to x in scheme, hosts,
\* user, path and options.
C1_RoundTrip ==
    op = "_UriData.from_uri" => (Returned(ret) /\ UriData_eq(ret.val, sent[2]))

\* C1, the state that refutes it: the host Host comes back as host
C1_HostLowercased ==
    /\ op = "_UriData.from_uri"
    /\ sent[2].hosts = <<"Host">>
    /\ Returned(ret)
    /\ ret.val.hosts = <<"host">>

\* C2: NfsInfo.from_uri of nfs://(192.168.1.1:2049)/export, which writes host
\* and port with a literal colon inside the parentheses, returns
\* NfsInfo(hostname="192.168.1.1", port=2049, path="/export").
C2_LiteralColon ==
    (op = "NfsInfo.from_uri" /\ wire = "nfs://(192.168.1.1:2049)/export") =>
        (/\ Returned(ret)
         /\ ret.val = [hostname |-> "192.168.1.1", port |-> <<2049>>, path |-> "/export"])

\* C2, the state that refutes it: the URI is rejected for its list of hosts
C2_Rejected ==
    /\ op = "NfsInfo.from_uri"
    /\ wire = "nfs://(192.168.1.1:2049)/export"
    /\ ret.err = "ParseUriError"
    /\ ret.msg = "invalid list of hosts"

C4_TwoGroups ==
    (/\ op \in {"_UriData.from_uri", "NfsInfo.from_uri", "_uri_to_fs_info"}
     /\ wire = "nfs://(10.0.0.1)(10.0.0.2)/x") =>
        (ret.err = "ParseUriError" /\ ret.msg = "invalid list of hosts")

\* C4, the state that refutes it: an NfsInfo is returned, its hostname the two
\* groups together
C4_Accepted ==
    /\ op = "NfsInfo.from_uri"
    /\ wire = "nfs://(10.0.0.1)(10.0.0.2)/x"
    /\ Returned(ret)
    /\ ret.val.hostname = "10.0.0.1)(10.0.0.2"

\* C5: _UriData.from_uri rejects with the invalid list of hosts ParseUriError
\* every URI whose host list has no opening parenthesis, no closing
\* parenthesis or an empty interior (), whatever the scheme, so that neither
\* NfsInfo.from_uri nor CephfsInfo.from_uri returns a descriptor for it.
C5_MalformedHosts ==
    \A s \in {"nfs", "cephfs"}, u \in UserInfoTokens, a \in AuthorityTokens,
       q \in {"", "?fsid=F&name=N&auth=plain:SECRETKEY"} :
        (MalformedHosts(a) /\ wire = s \o "://" \o u \o a \o "/export" \o q) =>
            /\ op = "_UriData.from_uri" =>
                  (ret.err = "ParseUriError" /\ ret.msg = "invalid list of hosts")
            /\ op \in {"NfsInfo.from_uri", "CephfsInfo.from_uri"} => ~Returned(ret)

\* C5, the state that refutes it: a CephfsInfo is returned for the host list ()
C5_EmptyAccepted ==
    /\ op = "CephfsInfo.from_uri"
    /\ wire = "cephfs://u@()/export?fsid=F&name=N&auth=plain:SECRETKEY"
    /\ Returned(ret)
    /\ ret.val.monitor_hosts = <<"">>

\* C6: CephfsInfo.from_uri returns a descriptor only when the user, the name
\* option, the fsid option and the auth option are all present and not empty;
\* when one of them is absent it fails with ParseUriError and returns nothing,
\* and when fsid is the only one absent the error names fsid.
C6_RequiredFields ==
    op = "CephfsInfo.from_uri" =>
        /\ Returned(ret) => (ret.val.user # "" /\ ret.val.name # "" /\ ret.val.fsid # "")
        /\ \A s \in {"cephfs", "ceph"}, u \in UserInfoTokens, f \in FsidTokens,
              n \in NameTokens, a \in AuthTokens, x \in ExtraTokens :
               wire = CephUri(s, u, f, n, a, x) =>
                   /\ (u = "" \/ FieldValue(f) = "" \/ FieldValue(n) = "" \/ FieldValue(a) = "")
                          => ret.err = "ParseUriError"
                   /\ (/\ s = "cephfs"
                       /\ u # ""
                       /\ FieldValue(f) = ""
                       /\ FieldValue(n) # ""
                       /\ FieldValue(a) # "")
                          => ret.msg = "missing fsid"

\* C6, its case: a URI that lacks only fsid was refused
C6_MissingFsid ==
    /\ op = "CephfsInfo.from_uri"
    /\ wire = "cephfs://u@(m1,m2,m3)/export?name=N&auth=plain:SECRETKEY"
    /\ ret.err = "ParseUriError"
    /\ ret.msg = "missing fsid"

\* C7: encoding a CephfsInfo with to_uri and decoding the URI it returned with
\* CephfsInfo.from_uri against the same secret store gives a descriptor with
\* the same fsid, name and key, and the same user, path and monitor hosts.
C7_RoundTrip ==
    (op = "CephfsInfo.from_uri" /\ wire # "") => (Returned(ret) /\ ret.val = sent[2])

\* C7, the state that refutes it: the monitor host Host comes back as host
C7_HostLowercased ==
    /\ op = "CephfsInfo.from_uri"
    /\ sent[2].monitor_hosts = <<"Host">>
    /\ Returned(ret)
    /\ ret.val.monitor_hosts = <<"host">>
    /\ ret.val.key = sent[2].key

\* C8: when CephfsInfo.to_uri returns, the store holds exactly one secret
\* labelled auth, whose content is the key of the descriptor: it was created
\* if there was none and updated in place otherwise, the other secrets left
\* alone; and the URI returned carries the id of that secret as auth and its
\* current revision as auth-rev.
C8_AuthSecret ==
    [][(op' = "CephfsInfo.to_uri" /\ Returned(ret')) =>
        /\ Cardinality(AuthSecrets(secrets')) = 1
        /\ IF AuthSecrets(secrets) = {}
           THEN secrets' = Append(secrets, secrets'[Len(secrets')])
           ELSE /\ Len(secrets') = Len(secrets)
                /\ \A i \in 1..Len(secrets) :
                      /\ secrets'[i].id = secrets[i].id
                      /\ i \notin AuthSecrets(secrets) => secrets'[i] = secrets[i]
        /\ \A i \in AuthSecrets(secrets') :
              /\ secrets'[i].key = sent[2].key
              /\ Returned(UriData_from_uri(ret'.val))
              /\ DictGet(UriData_from_uri(ret'.val).val.options, "auth") = secrets'[i].id
              /\ DictGet(UriData_from_uri(ret'.val).val.options, "auth-rev")
                     = IntStr(secrets'[i].revision)]_vars

\* C8, its case: to_uri has updated in place the auth secret of a store that
\* holds another secret too
C8_Updated ==
    /\ op = "CephfsInfo.to_uri"
    /\ Returned(ret)
    /\ Len(secrets) = 2
    /\ secrets[2].label = "auth"
    /\ secrets[2].key = "K1"
    /\ secrets[2].revision = 3

\* C9: the key of a decoded CephfsInfo is fixed by the kind of auth.  For
\* auth=plain:<data> it is <data>, everything after the first colon, and the
\* store is not called.  For auth=secret:<...> it is the key of the secret
\* whose id is the whole auth value; when the store has no such secret the
\* failure of the lookup reaches the caller and no descriptor is returned.
C9_KeyByKind ==
    op = "CephfsInfo.from_uri" =>
        \A a \in AuthTokens, x \in ExtraTokens :
            wire = CephUri("cephfs", "u@", "fsid=F", "name=N", a, x) =>
                /\ Prefix(FieldValue(a), 6) = "plain:" =>
                      /\ Returned(ret)
                      /\ ret.val.key = From(FieldValue(a), 7)
                      /\ calls = <<>>
                /\ Prefix(FieldValue(a), 7) = "secret:" =>
                      IF \E i \in 1..Len(secrets) : secrets[i].id = FieldValue(a)
                      THEN /\ Returned(ret)
                           /\ \A i \in 1..Len(secrets) :
                                 secrets[i].id = FieldValue(a) => ret.val.key = secrets[i].key
                      ELSE ret.err = "SecretNotFoundError"

\* C9, its case: auth=secret:1 was decoded against a store whose secret 1 is
\* not the one labelled auth
C9_SecretById ==
    /\ op = "CephfsInfo.from_uri"
    /\ wire = "cephfs://u@(m1,m2,m3)/export?fsid=F&name=N&auth=secret:1"
    /\ Len(secrets) = 2
    /\ Returned(ret)
    /\ ret.val.key = "T"

\* C10: CephfsInfo.from_uri fails with ParseUriError, and does not call the
\* secret store, whenever the auth option has no ":" or its kind is neither
\* secret nor plain.
C10_InvalidAuth ==
    op = "CephfsInfo.from_uri" =>
        \A s \in {"cephfs", "ceph"}, u \in UserInfoTokens, f \in FsidTokens,
           n \in NameTokens, a \in AuthTokens, x \in ExtraTokens :
            (/\ wire = CephUri(s, u, f, n, a, x)
             /\ FieldValue(a) # ""
             /\ \/ ~Has(FieldValue(a), ":")
                \/ Partition(FieldValue(a), ":")[1] \notin {"secret", "plain"}) =>
                (ret.err = "ParseUriError" /\ calls = <<>>)

\* C10, its case: a URI complete but for the kind of its auth was refused
C10_InvalidKind ==
    /\ op = "CephfsInfo.from_uri"
    /\ wire = "cephfs://u@(m1,m2,m3)/export?fsid=F&name=N&auth=vault:x"
    /\ ret.err = "ParseUriError"
    /\ ret.msg = "invalid kind"
    /\ calls = <<>>

\* the schemes of RawUris
SchemeTokens == {"nfs", "cephfs", "ceph", "smb", "NFS"}

\* C11: _uri_to_fs_info dispatches on the text before the first "://": nfs
\* gives what NfsInfo.from_uri gives, cephfs what CephfsInfo.from_uri gives,
\* and any other scheme fails with a FilesystemInfoError that names the
\* scheme, without a call of the secret store.
C11_Dispatch ==
    op = "_uri_to_fs_info" =>
        \A s \in SchemeTokens :
            Prefix(wire, Len(s) + 3) = s \o "://" =>
                IF s = "nfs" THEN ret = NfsInfo_from_uri(wire) /\ calls = <<>>
                ELSE IF s = "cephfs"
                THEN /\ ret = CephfsInfo_from_uri(wire, secrets).ret
                     /\ calls = CephfsInfo_from_uri(wire, secrets).calls
                ELSE /\ ret.err = "FilesystemInfoError"
                     /\ ret.msg = "unsupported filesystem type " \o s
                     /\ calls = <<>>

\* C11, its case: the registry has refused an smb URI
C11_Unsupported ==
    /\ op = "_uri_to_fs_info"
    /\ wire = "smb://(h1,h2)/x"
    /\ ret.err = "FilesystemInfoError"
    /\ ret.msg = "unsupported filesystem type smb"
    /\ calls = <<>>

\* C12: _hostinfo rejects with ParseUriError every malformed host token: the
\* empty token, a bracketed literal that is not closed, a bracketed literal
\* followed by something that does not start with ":", and a token whose port
\* part after ":" is not an integer that is not negative; so that a port it
\* returns is never negative.
C12_Malformed ==
    op = "_hostinfo" =>
        /\ sent[2] = "" => ret.err = "ParseUriError"
        /\ \A p \in PortTokens :
              /\ sent[2] = "[::1" \o p => ret.err = "ParseUriError"
              /\ sent[2] = "[::1]x" \o p => ret.err = "ParseUriError"
              /\ sent[2] = "[::1]]" \o p => ret.err = "ParseUriError"
        /\ \A h \in PlainHostTokens \cup {"[" \o a \o "]" : a \in AddrTokens},
              p \in PortTokens \ ({""} \cup {n[1] : n \in PortNumbers}) :
              sent[2] = h \o p => ret.err = "ParseUriError"
        /\ (Returned(ret) /\ ret.val[2] # <<>>) => ret.val[2][1] >= 0

\* C12, the state that refutes it: the port -1 was returned
C12_NegativePort ==
    /\ op = "_hostinfo"
    /\ sent[2] = "h:-1"
    /\ Returned(ret)
    /\ ret.val = <<"h", <<-1>>>>

\* C13: _hostinfo returns (h, None), h unchanged, for every host token h that
\* is not empty and holds neither a bracket nor ":", and returns (addr, port)
\* for every token [addr]:port whose port is a positive integer.
C13_WellFormed ==
    op = "_hostinfo" =>
        /\ \A h \in PlainHostTokens :
              sent[2] = h => (Returned(ret) /\ ret.val = <<h, <<>>>>)
        /\ \A a \in AddrTokens, n \in PortNumbers :
              (n[2] > 0 /\ sent[2] = "[" \o a \o "]" \o n[1]) =>
                  (Returned(ret) /\ ret.val = <<a, <<n[2]>>>>)

\* C13, its case: a bracketed address with a port was parsed
C13_Bracketed ==
    /\ op = "_hostinfo"
    /\ sent[2] = "[FE80::1]:2049"
    /\ Returned(ret)
    /\ ret.val = <<"FE80::1", <<2049>>>>

\* C14: _UriData.from_uri fails with the invalid options ParseUriError, and
\* returns no _UriData, whenever the query of the URI has a malformed percent
\* escape or a malformed field, such as a field without "=".
C14_InvalidOptions ==
    op = "_UriData.from_uri" =>
        \A s \in {"nfs", "smb", "NFS"}, q \in {"?a", "?a=%zz"} :
            wire = s \o "://(h1,h2)/x" \o q =>
                (ret.err = "ParseUriError" /\ ret.msg = "invalid options")

\* C14, the state that refutes it: the escape %zz was taken as it is
C14_EscapeKept ==
    /\ op = "_UriData.from_uri"
    /\ wire = "nfs://(h1,h2)/x?a=%zz"
    /\ Returned(ret)
    /\ ret.val.options = << <<"a", "%zz">> >>

\* C15: decoding ignores what a variant does not use.  NfsInfo.from_uri of a
\* URI with several hosts succeeds with the first host, and it ignores the
\* user and the options; CephfsInfo.from_uri gives the same outcome whether
\* or not the URI has an option other than name, fsid and auth.
C15_Ignored ==
    /\ op = "NfsInfo.from_uri" =>
          /\ \A p \in {"/x", "/x?a=b"} :
                wire = "nfs://(h1,h2)" \o p =>
                    (/\ Returned(ret)
                     /\ ret.val = [hostname |-> "h1", port |-> <<>>, path |-> "/x"])
          /\ \A u \in UserInfoTokens, q \in {"", "?fsid=F&name=N&auth=plain:SECRETKEY"} :
                wire = "nfs://" \o u \o "(192.168.1.1)/export" \o q =>
                    (/\ Returned(ret)
                     /\ ret.val = [hostname |-> "192.168.1.1", port |-> <<>>,
                                   path |-> "/export"])
    /\ op = "CephfsInfo.from_uri" =>
          \A u \in UserInfoTokens, f \in FsidTokens, n \in NameTokens, a \in AuthTokens :
              wire = CephUri("cephfs", u, f, n, a, "filesystem=fs_name") =>
                  ret = CephfsInfo_from_uri(CephUri("cephfs", u, f, n, a, ""), secrets).ret

\* C15, its case: the NFS decoder was given two hosts and an option
C15_FirstHost ==
    /\ op = "NfsInfo.from_uri"
    /\ wire = "nfs://(h1,h2)/x?a=b"
    /\ Returned(ret)
    /\ ret.val.hostname = "h1"

C17_NfsFrame ==
    [][op' \in {"NfsInfo.from_uri", "NfsInfo.to_uri", "NfsInfo.grant"} =>
          /\ calls' = <<>>
          /\ secrets' = secrets
          /\ data' = data
          /\ op' = "NfsInfo.grant" => (ret' = Ok("") /\ wire' = wire /\ sent' = sent)]_vars

\* C17, its case: grant ran on a model that holds a secret labelled auth and a
\* relation with data
C17_Granted ==
    /\ op = "NfsInfo.grant"
    /\ AuthSecrets(secrets) # {}
    /\ data[1] # <<>>

\* the authority of a URI: what stands between "://" and the next "/"
Authority(uri) == Partition(Partition(uri, "://")[3], "/")[1]

\* C18: the string form of a _UriData has its host list in parentheses, also
\* when there is one host; it has no "@" when user is empty, and no "?" when
\* options is empty.
C18_StringForm ==
    op = "_UriData.__str__" =>
        /\ At(Authority(wire), Len(Authority(wire))) = ")"
        /\ \/ sent[2].user = "" /\ At(Authority(wire), 1) = "("
           \/ sent[2].user # "" /\ Has(Authority(wire), "@(")
        /\ sent[2].user = "" => ~Has(wire, "@")
        /\ sent[2].options = <<>> => ~Has(wire, "?")

\* C18, its case: one host that holds an "@", a path that holds a "?", no user
\* and no options
C18_SingleHost ==
    /\ op = "_UriData.__str__"
    /\ sent[2].hosts = <<"192.168.227.11@tcp1">>
    /\ sent[2].user = ""
    /\ sent[2].options = <<>>
    /\ wire = "nfs://(192.168.227.11%40tcp1)/a%3Fb"

\* C19: a config-changed event in which an endpoint is configured leaves the
\* unit status Active("Exporting share"), whether or not an endpoint was stored
\* before.
C19_ExportingShare ==
    [][(op' = "_on_config_changed" /\ config' # <<>>) =>
           unit_status' = [name |-> "active", message |-> "Exporting share"]]_vars

\* C19, its case: the handler ran with an endpoint configured, and it ended
\* with the TypeError of StatusPool.update, the unit status not Active
C19_TypeError ==
    /\ op = "_on_config_changed"
    /\ config # <<>>
    /\ ~Returned(ret)
    /\ ret.err = "TypeError"
    /\ unit_status.name # "active"

\* C20: share_requested handled while no endpoint is stored: the event is
\* deferred, no relation databag is written, and the unit status is
\* Blocked("No configured endpoint").
C20_Deferred ==
    [][(op' = "_on_share_requested" /\ endpoint = <<>>) =>
           /\ sent'[2] \in deferred'
           /\ data' = data
           /\ unit_status' = [name |-> "blocked", message |-> "No configured endpoint"]]_vars

\* C20, its case: the handler ran with no endpoint stored and no status saved
\* under no_endpoint; the event is deferred and the unit status is
\* Waiting("No status set")
C20_NoStatusSet ==
    /\ op = "_on_share_requested"
    /\ endpoint = <<>>
    /\ sent[2] \in deferred
    /\ Labelled(_status_state, "no_endpoint") = {}
    /\ unit_status = [name |-> "waiting", message |-> "No status set"]

\* C21: the stored endpoint is write-once: it changes only from None to the
\* configured value, in a config-changed that sees a configured endpoint, and
\* nothing changes it afterwards.
C21_WriteOnce ==
    [][endpoint' # endpoint =>
           /\ endpoint = <<>>
           /\ op' = "_on_config_changed"
           /\ config' # <<>>
           /\ endpoint' = config']_vars

\* C21, its case: a config-changed saw a configured endpoint and stored it, its
\* hook ended with the exception of the handler, and the charm of the next
\* hook finds no endpoint stored
C21_Lost ==
    /\ op = "crash"
    /\ sent[1] = "config_changed"
    /\ config # <<>>
    /\ snapshot.endpoint = <<>>
    /\ endpoint = <<>>

C23_EndpointSet ==
    [][(op' = "_on_share_requested" /\ endpoint # <<>> /\ is_leader) =>
           /\ DictHas(data'[sent'[2]], "endpoint")
           /\ DictGet(data'[sent'[2]], "endpoint") = endpoint[1]
           /\ sent'[2] \notin deferred'
           /\ \A r \in DOMAIN data : r # sent'[2] => data'[r] = data[r]]_vars

\* C23, its case: the leader handled the event of the second relation with an
\* endpoint stored, and the first relation has no endpoint
C23_Exported ==
    /\ op = "_on_share_requested"
    /\ is_leader
    /\ endpoint = <<"nfs://127.0.0.1/polaris-research-data">>
    /\ sent[2] = 2
    /\ data[2] = << <<"endpoint", "nfs://127.0.0.1/polaris-research-data">> >>
    /\ data[1] = <<>>

\* C24: mount_filesystem is emitted only for a relation whose provider app
\* databag holds an endpoint: the endpoint a handler of the event reads is
\* never None.
C24_EndpointNotNone ==
    op = "mount_filesystem" =>
        /\ DictHas(data[sent[2]], "endpoint")
        /\ ~(Returned(ret) /\ ret.val = <<>>)

\* C24, its case: relation-changed came on a relation whose provider has
\* written no endpoint; mount_filesystem was emitted and its endpoint is None
C24_NoneRead ==
    /\ op = "mount_filesystem"
    /\ data[sent[2]] = <<>>
    /\ Returned(ret)
    /\ ret.val = <<>>

\* C25: on a unit that is not the leader, set_info and the relation-joined
\* handler change nothing: no secret is created or updated, and no databag is
\* written, that of the peer relation with the stored endpoint included.
C25_NotLeader ==
    [][(op' \in {"set_info", "_update_relation"} /\ ~is_leader) =>
           /\ secrets' = secrets
           /\ data' = data
           /\ ret' = Ok("")]_vars

\* C25, its case: set_info ran on a unit that is not the leader, with a
\* CephFS descriptor whose key is not the one in the store, the peer relation
\* holding an endpoint
C25_Ignored ==
    /\ op = "set_info"
    /\ ~is_leader
    /\ Provides_endpoint(data) # ""
    /\ "key" \in DOMAIN sent[2]
    /\ \E i \in AuthSecrets(secrets) : secrets[i].key # sent[2].key

\* C26: on a unit that is not the leader, request_share and set_endpoint leave
\* every relation databag as it was; a databag is written only by a call made
\* on the leader.
C26_LeaderWrites ==
    [][/\ (op' \in {"request_share", "set_endpoint"} /\ ~is_leader) => data' = data
       /\ data' # data => is_leader]_vars

\* C26, its case: request_share ran on a unit that is not the leader, on a
\* relation whose databag holds what an earlier leader wrote
C26_NotWritten ==
    /\ op = "request_share"
    /\ ~is_leader
    /\ DictHas(data[sent[2]], "endpoint")
    /\ DictGet(data[sent[2]], "name") = "share"
    /\ DictGet(data[sent[2]], "allowlist") = "10.0.0.1,10.0.0.2"
    /\ DictGet(data[sent[2]], "size") = "-1"

\* C27: when a share_requested event was deferred and, from some hook on, the
\* unit is the leader and an endpoint is configured, with hooks that keep being
\* dispatched, the databag of the requesting relation eventually holds the
\* stored endpoint under `endpoint`.
C27_EventuallySet ==
    \A relation \in 1..2 :
        (<>(relation \in deferred) /\ <>[](is_leader /\ config # <<>>))
            => <>(/\ endpoint # <<>>
                  /\ DictHas(data[relation], "endpoint")
                  /\ DictGet(data[relation], "endpoint") = endpoint[1])

\* C27, its case: on the leader an event is deferred, an endpoint is
\* configured, and the hook of config-changed ended with an exception: no
\* endpoint is stored and the databag of the relation holds none
C27_StillDeferred ==
    /\ op = "crash"
    /\ is_leader
    /\ config # <<>>
    /\ endpoint = <<>>
    /\ \E relation \in deferred : ~DictHas(data[relation], "endpoint")

\* C28: on the leader with the peer relation established, set_info(info)
\* returns with the endpoint stored on the peer relation and the `endpoint` of
\* every relation equal to the URI that info.to_uri gave; the relation-joined
\* handler of the leader writes the stored URI to its relation and leaves the
\* stored one as it is; and in every state, a relation that holds an endpoint
\* holds the stored one, the URI of the last set_info.
C28_StoredUri ==
    /\ [](\A r \in DOMAIN data \ {0} :
              DictHas(data[r], "endpoint")
                  => DictGet(data[r], "endpoint") = Provides_endpoint(data))
    /\ [][/\ (op' = "set_info" /\ is_leader /\ 0 \in DOMAIN data)
                 => /\ Returned(ret')
                    /\ \A r \in DOMAIN data' :
                           DictGet(data'[r], "endpoint")
                               = Info_to_uri(sent'[2], secrets).ret.val
          /\ (op' = "_update_relation" /\ is_leader /\ Provides_endpoint(data) # "")
                 => /\ Returned(ret')
                    /\ DictGet(data'[sent'[2]], "endpoint") = Provides_endpoint(data)
                    /\ Provides_endpoint(data') = Provides_endpoint(data)]_vars

\* C28, its case: relation-joined ran on the leader for the second relation,
\* after a CephFS descriptor was set: the two relations hold the stored URI
\* and the secret of the descriptor is granted to both
C28_JoinedLater ==
    /\ op = "_update_relation"
    /\ is_leader
    /\ sent[2] = 2
    /\ DOMAIN data = {0, 1, 2}
    /\ Len(secrets) = 1
    /\ secrets[1].grants = {1, 2}
    /\ secrets[1].revision >= 3
    /\ DictGet(data[2], "endpoint") = Provides_endpoint(data)
    /\ DictGet(data[1], "endpoint") = Provides_endpoint(data)

\* C29: after a handler's last StatusPool.add, the unit status is the status
\* and the message of the highest-priority entry of the pool, and it is
\* Waiting("No status set") when the pool is empty or that entry is unknown.
C29_HighestShown ==
    [][(op' = "_on_config_changed" \/ (op' = "_on_share_requested" /\ endpoint = <<>>))
           => IF Nlargest(_pool') = <<>> \/ Nlargest(_pool')[1].name = "unknown"
              THEN unit_status' = [name |-> "waiting", message |-> "No status set"]
              ELSE unit_status' = [name |-> Nlargest(_pool')[1].name,
                                   message |-> Status_message(Nlargest(_pool')[1])]]_vars

\* C29, its case: the pool held an unknown no_endpoint status, the unit status
\* Waiting("No status set"); the ready status was added and is the highest of
\* the pool, and the unit status is still the one of before
C29_NotShown ==
    /\ op = "_on_config_changed"
    /\ Len(_pool) = 2
    /\ Nlargest(_pool) = <<Status("ready", "active", "Exporting share")>>
    /\ \E i \in Labelled(_pool, "no_endpoint") : _pool[i].name = "unknown"
    /\ unit_status = [name |-> "waiting", message |-> "No status set"]
    /\ ~Returned(ret)

\* C30: a status that a hook committed stays saved under its label through
\* the commits of the later hooks, and a fresh, never-set Status of that label
\* added in a later hook takes the saved name and message.
C30_Retained ==
    [][/\ op' = "commit"
              => \A i \in 1..Len(_status_state) :
                     \E j \in Labelled(_status_state', _status_state[i].label) :
                         Labelled(_pool, _status_state[i].label) = {}
                             => _status_state'[j] = _status_state[i]
       /\ (op' = "_on_share_requested" /\ endpoint = <<>>
               /\ Labelled(_pool, "no_endpoint") = {}
               /\ Labelled(_status_state, "no_endpoint") # {})
              => \E i \in Labelled(_status_state, "no_endpoint"),
                    j \in Labelled(_pool', "no_endpoint") :
                     /\ _pool'[j].name = _status_state[i].status
                     /\ Status_message(_pool'[j]) = _status_state[i].message]_vars

\* C30, its case: the unit status is still the Blocked("No configured
\* endpoint") of an earlier hook, a later hook that pooled no status has
\* committed, and no status is saved any more
C30_Forgotten ==
    /\ op = "commit"
    /\ unit_status = [name |-> "blocked", message |-> "No configured endpoint"]
    /\ endpoint = <<>>
    /\ _status_state = <<>>
    /\ snapshot.statuses = <<>>

\* what a unit has cached: json.loads of its cache, {} when it has none
Cached(cached) == Json_loads(IF cached = <<>> THEN "{}" ELSE cached[1])[2]

\* C31: NFSRequires._on_relation_changed emits mount_share exactly when the
\* app databag of the server holds `endpoint` and the cache of the unit does
\* not; so a unit emits it once, when the endpoint appears, and not again when
\* its value changes.
C31_MountShare ==
    /\ [](\A unit \in Units : emitted[unit][2] <= 1)
    /\ [][op' = "NFSRequires._on_relation_changed"
              => /\ (emitted'[sent'[2][1]][2] = emitted[sent'[2][1]][2] + 1)
                        <=> (/\ DictHas(data[2], "endpoint")
                             /\ ~DictHas(Cached(cache[sent'[2][1]][2]), "endpoint"))
                 /\ (emitted'[sent'[2][1]][2] # emitted[sent'[2][1]][2] + 1)
                        => emitted' = emitted]_vars

\* C31, its case: the handler ran on a unit that has emitted mount_share once
\* and now caches the endpoint of the databag, while the other unit still
\* caches the endpoint that was there before the server changed it
C31_ValueChanged ==
    /\ op = "NFSRequires._on_relation_changed"
    /\ emitted[sent[2][1]][2] = 1
    /\ DictGet(data[2], "endpoint") = "nfs://127.0.0.1/data"
    /\ DictGet(Cached(cache[sent[2][1]][2]), "endpoint") = "nfs://127.0.0.1/data"
    /\ \E unit \in Units :
           DictGet(Cached(cache[unit][2]), "endpoint") = "nfs://127.0.0.1/polaris-research-data"

\* C32: NFSProvides._on_relation_changed emits share_requested exactly when
\* the unit is the leader and the app databag of the client holds `name` while
\* the cache of the unit does not; on a unit that is not the leader it emits
\* nothing and leaves the cache of the unit as it is.
C32_ShareRequested ==
    [][op' = "NFSProvides._on_relation_changed"
           => /\ (emitted'[sent'[2][1]][1] = emitted[sent'[2][1]][1] + 1)
                     <=> (/\ Leads(sent'[2][1])
                          /\ DictHas(data[1], "name")
                          /\ ~DictHas(Cached(cache[sent'[2][1]][1]), "name"))
              /\ (emitted'[sent'[2][1]][1] # emitted[sent'[2][1]][1] + 1)
                     => emitted' = emitted
              /\ ~Leads(sent'[2][1]) => cache' = cache]_vars

\* C32, its case: the handler ran on the unit that is not the leader, the
\* client having requested a share: the unit has emitted nothing and has no
\* cache, while the leader has emitted the event and cached the request
C32_NotLeader ==
    /\ op = "NFSProvides._on_relation_changed"
    /\ ~Leads(sent[2][1])
    /\ DictHas(data[1], "name")
    /\ cache[sent[2][1]][1] = <<>>
    /\ emitted[sent[2][1]][1] = 0
    /\ \E unit \in Units :
           /\ Leads(unit)
           /\ emitted[unit][1] = 1
           /\ DictEq(Cached(cache[unit][1]), SelectSeq(data[1], NotCache))

\* C33: after a handler ran _eval for a unit on a relation, the cache of the
\* unit decodes to the app databag of the remote application without its
\* cache key, and _eval on that cache and the same databag reports no key
\* added, changed or deleted.
C33_CacheIsData ==
    [][(\/ op' = "NFSRequires._on_relation_changed"
        \/ (op' = "NFSProvides._on_relation_changed" /\ Leads(sent'[2][1])))
           => /\ cache'[sent'[2][1]][sent'[2][2]] # <<>>
              /\ DictEq(Cached(cache'[sent'[2][1]][sent'[2][2]]),
                        SelectSeq(data'[sent'[2][2]], NotCache))
              /\ _eval(cache'[sent'[2][1]][sent'[2][2]], data'[sent'[2][2]]).added = {}
              /\ _eval(cache'[sent'[2][1]][sent'[2][2]], data'[sent'[2][2]]).changed = {}
              /\ _eval(cache'[sent'[2][1]][sent'[2][2]], data'[sent'[2][2]]).deleted = {}
              /\ _eval(cache'[sent'[2][1]][sent'[2][2]], data'[sent'[2][2]]).cache
                     = cache'[sent'[2][1]][sent'[2][2]]]_vars

\* C33, its case: _eval ran on the leader for the relation with the client,
\* whose databag holds a cache key of its own and an allowlist with a quote
\* and a backslash: the cache of the unit holds the request and no cache key
C33_Cached ==
    /\ op = "NFSProvides._on_relation_changed"
    /\ Leads(sent[2][1])
    /\ DictHas(data[1], "cache")
    /\ DictGet(data[1], "allowlist") = "10.0.0.1 \"lab\\a\""
    /\ Keys(Cached(cache[sent[2][1]][1])) = {"name", "allowlist", "size"}
    /\ DictGet(Cached(cache[sent[2][1]][1]), "allowlist") = "10.0.0.1 \"lab\\a\""

\* C34: over the units of the provider and the changes of leadership,
\* share_requested is emitted at most once for an appearance of `name` in the
\* app databag of the client; the key is never removed here, so it appears
\* at most once.
C34_EmittedOnce == emitted[1][1] + emitted[2][1] <= 1

\* C34, its case: leadership moved from a unit that had emitted share_requested
\* and cached the request; relation-changed ran on the new leader, which
\* emitted the event for the same request
C34_EmittedAgain ==
    /\ op = "NFSProvides._on_relation_changed"
    /\ Leads(sent[2][1])
    /\ \A unit \in Units :
           /\ emitted[unit][1] = 1
           /\ DictEq(Cached(cache[unit][1]), SelectSeq(data[1], NotCache))
    /\ DictGet(data[1], "allowlist") = "0.0.0.0"

\* C35: decoding the URI that to_uri of a descriptor produced gives the key of
\* that descriptor, whatever other descriptors were encoded or granted on the
\* model in between.
C35_OwnKey ==
    (op = "CephfsInfo.from_uri" /\ wire # "" /\ Returned(ret)) => ret.val.key = sent[2].key

\* C35, its case: the URI of a descriptor with the key K1 was decoded after a
\* descriptor with another key was encoded or granted on the model: the key
\* that comes back is the one of the other descriptor
C35_OtherKey ==
    /\ op = "CephfsInfo.from_uri"
    /\ wire # ""
    /\ Returned(ret)
    /\ sent[2].key = "K1"
    /\ ret.val.key = "a+b/c=="
    /\ ret.val.monitor_hosts = sent[2].monitor_hosts
    /\ \A i \in AuthSecrets(secrets) : secrets[i].key = "a+b/c=="

\* C36: set_info on the leader while the peer relation does not exist raises
\* FilesystemInfoError and leaves everything as it was: no databag is written
\* and no secret is created or updated.
C36_NothingChanged ==
    [][(op' = "set_info" /\ is_leader /\ 0 \notin DOMAIN data) =>
           /\ ret'.err = "FilesystemInfoError"
           /\ data' = data
           /\ secrets' = secrets]_vars

\* C36, its case: set_info of a CephFS descriptor raised FilesystemInfoError on
\* the leader, no peer relation and no databag written, and the store holds
\* the secret that to_uri created with the key of the descriptor
C36_SecretCreated ==
    /\ op = "set_info"
    /\ is_leader
    /\ 0 \notin DOMAIN data
    /\ ret.err = "FilesystemInfoError"
    /\ \A r \in DOMAIN data : data[r] = <<>>
    /\ "key" \in DOMAIN sent[2]
    /\ Len(secrets) = 1
    /\ secrets[1].label = "auth"
    /\ secrets[1].key = sent[2].key
    /\ secrets[1].revision = 1

\* C37: for an NfsInfo with a hostname that is not empty, a port that is None
\* or in 0..65535 and an absolute path, decoding the URI that to_uri gave
\* returns the same NfsInfo.
C37_NfsRoundTrip ==
    (/\ op = "NfsInfo.from_uri"
     /\ sent[1] = "NfsInfo"
     /\ wire # ""
     /\ sent[2].hostname # ""
     /\ Prefix(sent[2].path, 1) = "/")
        => (Returned(ret) /\ ret.val = sent[2])

\* C37, its case: NfsInfo(hostname="192.168.1.1", port=0, path="/export") was
\* encoded without its port, and the NfsInfo decoded has no port
C37_PortZero ==
    /\ op = "NfsInfo.from_uri"
    /\ sent = <<"NfsInfo", [hostname |-> "192.168.1.1", port |-> <<0>>, path |-> "/export"]>>
    /\ wire = "nfs://(192.168.1.1)/export"
    /\ Returned(ret)
    /\ ret.val = [hostname |-> "192.168.1.1", port |-> <<>>, path |-> "/export"]

====
